---- MODULE Spec2Model ----
\* Lazy-loading translation runtime: tiered cache (cache.ts), dynamic module
\* loader, loading strategy and key-level loader (loader), error recovery
\* (errors).  Time is counted in ticks of Date.now().
EXTENDS Integers, Sequences, FiniteSets, TLC

\* ---------------------------------------------------------------------------
\* Bounds of the exploration
\* ---------------------------------------------------------------------------
MaxSizeBound == 2
MaxTtl == 1
MaxTime == 2
MaxHits == 1
MaxTasks == 2

\* ---------------------------------------------------------------------------
\* Universe
\* ---------------------------------------------------------------------------
Locales == {"en", "vi"}
Sections == {"common", "auth"}
NoSection == "-"
None == "-"
TierNames == {"locale", "section", "key"}
\* cacheKey of DynamicModuleLoader.load: locale or locale:section
LoadSections == {"common"}
LoadKeys == Locales \X (LoadSections \cup {NoSection})

VARIABLES
  cache,        \* TranslationCacheManager: tier name -> Map in insertion order
  now,          \* Date.now()
  maxSize,      \* CacheConfig.maxSize
  ttlCfg,       \* CacheConfig.ttl
  cacheRet,     \* what the last cache-manager call did and returned
  accessOrder,  \* history: keys of the section tier by last access, oldest first
  focus,        \* the tier the cache-only behaviours exercise
  promises,     \* the performLoad promises, in creation order
  loadingPromises, \* DynamicModuleLoader.loadingPromises: cacheKey -> promise (0: absent)
  tasks,        \* the calls made by the loader's clients, in call order
  exec,         \* the executeRecovery call in progress
  sm,           \* I18nStateManager: its state and its observers
  storage,      \* localStorage item 'preferred-locale'
  note,         \* what the last state-manager call did and returned
  messages,     \* vueI18n messages: locale -> the payload installed (None: {})
  calls,        \* the asynchronous facade calls, in call order
  loadLog,      \* history: the startLoading / completeLoading calls of the facade
  shown,        \* what the last getTranslation call returned
  tracker,      \* ErrorTracker: log, counts per class and locale, recovery counters
  tracked,      \* history: what has been reported to the error tracker so far
  preload       \* PreloadingManager: isPreloading, preloadQueue; the preload calls

\* what the cache and loader operations leave alone
stateVars == <<sm, storage, note>>
facadeVars == <<messages, calls, loadLog, shown>>
baseVars == <<maxSize, ttlCfg, focus, exec, stateVars, facadeVars>>
cfgVars == <<baseVars, preload>>
trackVars == <<tracker, tracked>>
loaderVars == <<promises, loadingPromises, tasks, trackVars>>
vars == <<cache, now, maxSize, ttlCfg, cacheRet, accessOrder, focus,
          promises, loadingPromises, tasks, exec, sm, storage, note,
          messages, calls, loadLog, shown, tracker, tracked, preload>>

\* ---------------------------------------------------------------------------
\* I18nStateManager (state): locale, loading sets, observers, persistence
\* ---------------------------------------------------------------------------
SupportedLocales == Locales
DefaultLocale == "vi"
\* a locale outside SUPPORTED_LOCALES
AllLocales == Locales \cup {"fr"}
\* what localStorage may hold under 'preferred-locale': nothing, the empty
\* string, or a locale that may not be supported any more
StoredValues == {None, ""} \cup AllLocales
Observers == {"o1", "o2"}
Events == {"onLocaleChange", "onLoadingStart", "onLoadingComplete"}

NewStateManager ==
  [currentLocale |-> DefaultLocale, loadedLocales |-> <<>>, isLoading |-> FALSE,
   loadingLocales |-> <<>>, loadingSections |-> <<>>, loadingModules |-> <<>>,
   observers |-> <<>>]

NoGot == [o \in Observers |-> 0]
NoNote ==
  [op |-> "none", arg |-> None, raised |-> FALSE, event |-> None, got |-> NoGot,
   threw |-> {}, ret |-> None]

\* the error classes: I18nError and its subclasses
ErrorClasses ==
  {"NetworkError", "TranslationLoadError", "TranslationKeyError", "SectionLoadError",
   "ModuleLoadError", "CacheError", "ConfigurationError", "I18nError"}

TrackedLocales == Locales \cup {"unknown"}

NewTracker ==
  [errorLog |-> <<>>,
   errorCounts |-> [c \in ErrorClasses |-> 0],
   localeErrorCounts |-> [l \in TrackedLocales |-> 0],
   recoverySuccessCount |-> 0,
   recoveryAttemptCount |-> 0]

\* nothing has been reported yet: the calls made to the tracker, the errors
\* ever tracked, those tracked since the last clearStatistics, the context of
\* the last handleError call, how often the fetch of each locale's resource
\* has failed and has been issued, the caller's loop of trackError calls
\* that is running, and the locales unloaded with no load called since
NoContext ==
  [locale |-> None, section |-> None, key |-> None, module |-> None, operation |-> None]

NewTracked ==
  [calls |-> 0, arrivals |-> 0, errors |-> 0, last |-> NoContext,
   failed |-> [l \in Locales |-> 0], fetched |-> [l \in Locales |-> 0],
   loop |-> [err |-> None, left |-> 0], unloaded |-> {}]

\* the sum of the counts f keeps for the members of S
RECURSIVE SumOver(_, _)
SumOver(f, S) ==
  IF S = {} THEN 0
  ELSE LET x == CHOOSE y \in S : TRUE IN f[x] + SumOver(f, S \ {x})

TrackerIdle ==
  /\ tracker = NewTracker
  /\ tracked = NewTracked

\* the preloading manager as constructed; no preload call has been made
NoPreload == [isPreloading |-> FALSE, preloadQueue |-> <<>>, batches |-> <<>>]

PreloadIdle == preload = NoPreload

\* no getTranslation call has been made
NoShown ==
  [op |-> "none", key |-> <<>>, ret |-> <<>>, cold |-> FALSE, initialized |-> FALSE,
   initial |-> None]

\* the facade as constructed, before any call
FacadeIdle ==
  /\ messages = [l \in SupportedLocales |-> None]
  /\ calls = <<>>
  /\ loadLog = <<>>
  /\ shown = NoShown

StateIdle ==
  /\ sm = NewStateManager
  /\ storage = None
  /\ note = NoNote
  /\ FacadeIdle

isLocaleSupported(l) == l \in SupportedLocales

\* array used as a set: push unless included, filter out
Include(arr, x) == IF x \in {arr[i] : i \in 1..Len(arr)} THEN arr ELSE Append(arr, x)
Exclude(arr, x) == SelectSeq(arr, LAMBDA y : y # x)

\* notifyObservers without the try/catch around each callback
RECURSIVE NotifyNoCatchFrom(_, _, _, _)
NotifyNoCatchFrom(obs, i, throwing, got) ==
  IF i > Len(obs) THEN [got |-> got, raised |-> FALSE]
  ELSE IF obs[i] \in throwing
       THEN [got |-> [got EXCEPT ![obs[i]] = @ + 1], raised |-> TRUE]
       ELSE NotifyNoCatchFrom(obs, i + 1, throwing, [got EXCEPT ![obs[i]] = @ + 1])

notifyObserversNoCatch(obs, throwing) == NotifyNoCatchFrom(obs, 1, throwing, NoGot)

\* observers.forEach: each callback is applied inside its own try/catch, so
\* a callback of `throwing` is logged and the iteration goes on
RECURSIVE NotifyFrom(_, _, _, _)
NotifyFrom(obs, i, throwing, got) ==
  IF i > Len(obs) THEN [got |-> got, raised |-> FALSE]
  ELSE NotifyFrom(obs, i + 1, throwing, [got EXCEPT ![obs[i]] = @ + 1])

\* how often each observer's callback was applied, and whether the caller
\* saw an exception
notifyObservers(obs, throwing) == NotifyFrom(obs, 1, throwing, NoGot)

\* a truthy optional field of a LoadingContext
Given(x) == x # None /\ x # ""

\* startLoading(context): the new state and the notification
startLoading(s, ctx, throwing) ==
  LET s1 == [s EXCEPT !.isLoading = TRUE]
      s2 == IF Given(ctx.locale) THEN [s1 EXCEPT !.loadingLocales = Include(@, ctx.locale)] ELSE s1
      s3 == IF Given(ctx.section) THEN [s2 EXCEPT !.loadingSections = Include(@, ctx.section)] ELSE s2
      s4 == IF Given(ctx.module) THEN [s3 EXCEPT !.loadingModules = Include(@, ctx.module)] ELSE s3
  IN [sm |-> s4, n |-> notifyObservers(s.observers, throwing)]

\* completeLoading that leaves isLoading as it is
completeLoadingKeepFlag(s, ctx, throwing) ==
  LET s1 == IF Given(ctx.locale) THEN [s EXCEPT !.loadingLocales = Exclude(@, ctx.locale)] ELSE s
      s2 == IF Given(ctx.section) THEN [s1 EXCEPT !.loadingSections = Exclude(@, ctx.section)] ELSE s1
      s3 == IF Given(ctx.module) THEN [s2 EXCEPT !.loadingModules = Exclude(@, ctx.module)] ELSE s2
  IN [sm |-> s3, n |-> notifyObservers(s.observers, throwing)]

\* completeLoading(context, result)
completeLoading(s, ctx, throwing) ==
  LET s1 == IF Given(ctx.locale) THEN [s EXCEPT !.loadingLocales = Exclude(@, ctx.locale)] ELSE s
      s2 == IF Given(ctx.section) THEN [s1 EXCEPT !.loadingSections = Exclude(@, ctx.section)] ELSE s1
      s3 == IF Given(ctx.module) THEN [s2 EXCEPT !.loadingModules = Exclude(@, ctx.module)] ELSE s2
      s4 == IF s3.loadingLocales = <<>> /\ s3.loadingSections = <<>> /\ s3.loadingModules = <<>>
            THEN [s3 EXCEPT !.isLoading = FALSE] ELSE s3
  IN [sm |-> s4, n |-> notifyObservers(s.observers, throwing)]

\* reset that leaves the loading flag as it is
resetKeepFlag(s) ==
  [s EXCEPT !.currentLocale = DefaultLocale, !.loadedLocales = <<>>,
            !.loadingLocales = <<>>, !.loadingSections = <<>>, !.loadingModules = <<>>]

\* reset(): the observers stay registered
reset(s) ==
  [s EXCEPT !.currentLocale = DefaultLocale, !.loadedLocales = <<>>, !.isLoading = FALSE,
            !.loadingLocales = <<>>, !.loadingSections = <<>>, !.loadingModules = <<>>]

\* setCurrentLocale without the support check
setCurrentLocaleUnchecked(s, store, l, throwing) ==
  LET n == notifyObservers(s.observers, throwing)
  IN IF n.raised
     THEN [sm |-> [s EXCEPT !.currentLocale = l], storage |-> store, n |-> n]
     ELSE [sm |-> [s EXCEPT !.currentLocale = l], storage |-> l, n |-> n]

\* setCurrentLocale(locale): throws before any change when the locale is not
\* supported; otherwise sets it, notifies, then persists (an exception that
\* left notifyObservers would skip the persistence)
setCurrentLocale(s, store, l, throwing) ==
  IF ~isLocaleSupported(l)
  THEN [sm |-> s, storage |-> store, n |-> [got |-> NoGot, raised |-> TRUE]]
  ELSE LET n == notifyObservers(s.observers, throwing)
       IN IF n.raised
          THEN [sm |-> [s EXCEPT !.currentLocale = l], storage |-> store, n |-> n]
          ELSE [sm |-> [s EXCEPT !.currentLocale = l], storage |-> l, n |-> n]

\* getInitialLocale without the support check of the saved value
getInitialLocaleAnySaved(store) ==
  IF store # None /\ store # "" THEN store ELSE DefaultLocale

\* getInitialLocale(): the saved locale when truthy and supported, else the default
getInitialLocale(store) ==
  IF store # None /\ store # "" /\ isLocaleSupported(store) THEN store ELSE DefaultLocale

\* an optional number that was not given
Undefined == 0 - 1

\* no executeRecovery call has been made
NoExec ==
  [pc |-> "idle", cls |-> "-", custom |-> FALSE, strategy |-> [type |-> "-"],
   outcomes |-> <<>>, waits |-> <<>>, result |-> FALSE]

\* ---------------------------------------------------------------------------
\* Sequence helpers (a JS Map is a sequence of entries in insertion order)
\* ---------------------------------------------------------------------------
SeqRange(s) == {s[i] : i \in 1..Len(s)}
MapKeys(m) == {m[i].k : i \in 1..Len(m)}
MapHas(m, k) == k \in MapKeys(m)
MapIdx(m, k) == CHOOSE i \in 1..Len(m) : m[i].k = k
MapGet(m, k) == m[MapIdx(m, k)]
MapDelete(m, k) == SelectSeq(m, LAMBDA e : e.k # k)
\* Map.prototype.set: an existing key keeps its position
MapSet(m, k, e) ==
  IF MapHas(m, k) THEN [m EXCEPT ![MapIdx(m, k)] = e] ELSE Append(m, e)

RemoveKey(s, k) == SelectSeq(s, LAMBDA x : x # k)
KeepKeys(s, ks) == SelectSeq(s, LAMBDA x : x \in ks)

\* ---------------------------------------------------------------------------
\* CacheEntryImpl
\* ---------------------------------------------------------------------------
NewEntry(k, data, ttl, t) ==
  [k |-> k, data |-> data, timestamp |-> t, ttl |-> ttl, hits |-> 0]

\* variant: an entry whose age equals its ttl counts as expired
isExpiredAtTtl(e, t) == t - e.timestamp >= e.ttl

isExpired(e, t) == t - e.timestamp > e.ttl

isValid(e, t) == ~isExpired(e, t)

getAge(e, t) == t - e.timestamp

\* hits per second as the fraction num/den (den > 0)
getHitRate(e, t) ==
  IF getAge(e, t) > 0 THEN [num |-> e.hits * 1000, den |-> getAge(e, t)]
                      ELSE [num |-> 0, den |-> 1]

RateLess(a, b) == a.num * b.den < b.num * a.den
RateEq(a, b) == a.num * b.den = b.num * a.den

\* ---------------------------------------------------------------------------
\* MemoryCacheStrategy / LRUCacheStrategy
\* ---------------------------------------------------------------------------
IsLru(tier) == tier = "section"

Capacity(tier, ms) == IF tier = "key" THEN ms * 2 ELSE ms

\* evictLeastUsed: the forEach scan, best = 0 while leastUsedKey is null
RECURSIVE EvictScan(_, _, _, _)
EvictScan(m, i, best, t) ==
  IF i > Len(m) THEN best
  ELSE LET hr == getHitRate(m[i], t)
           age == getAge(m[i], t)
           take == \/ best = 0
                   \/ RateLess(hr, getHitRate(m[best], t))
                   \/ /\ RateEq(hr, getHitRate(m[best], t))
                      /\ age > getAge(m[best], t)
       IN EvictScan(m, i + 1, IF take THEN i ELSE best, t)

evictLeastUsed(m, t) ==
  LET b == EvictScan(m, 1, 0, t)
  IN IF b = 0 THEN m ELSE MapDelete(m, m[b].k)

\* LRUCacheStrategy.set: the first key of the Map goes
EvictFirst(m) == IF Len(m) > 0 THEN Tail(m) ELSE m

StrategyGet(tier, m, k, t) ==
  IF ~MapHas(m, k) THEN [m |-> m, found |-> FALSE]
  ELSE LET e == MapGet(m, k)
           e2 == [e EXCEPT !.hits = e.hits + 1]
       IN IF isExpired(e, t) THEN [m |-> MapDelete(m, k), found |-> FALSE]
          ELSE IF IsLru(tier)
               THEN [m |-> Append(MapDelete(m, k), e2), found |-> TRUE, e |-> e2]
               ELSE [m |-> MapSet(m, k, e2), found |-> TRUE, e |-> e2]

\* variant: set without the eviction step
StrategySetNoEvict(tier, m, k, data, ttl, t, ms) ==
  MapSet(m, k, NewEntry(k, data, ttl, t))

StrategySet(tier, m, k, data, ttl, t, ms) ==
  LET m1 == IF Len(m) >= Capacity(tier, ms)
            THEN IF IsLru(tier) THEN EvictFirst(m) ELSE evictLeastUsed(m, t)
            ELSE m
  IN MapSet(m1, k, NewEntry(k, data, ttl, t))

StrategyHas(m, k, t) == IF MapHas(m, k) THEN isValid(MapGet(m, k), t) ELSE FALSE

StrategyCleanup(m, t) == SelectSeq(m, LAMBDA e : ~isExpired(e, t))

\* ---------------------------------------------------------------------------
\* TranslationCacheManager.  A cache state cs is [c |-> tiers, a |-> access
\* history of the section tier]; keys are the template strings
\* locale:L, section:L:S, key:L:K kept as tuples.
\* ---------------------------------------------------------------------------
LocaleKey(l) == <<"locale", l>>
SectionKey(l, s) == <<"section", l, s>>
KeyKey(l, key) == <<"key", l, key>>

AccessSync(a, m) == KeepKeys(a, MapKeys(m))

MgrGet(cs, tier, k, t) ==
  LET r == StrategyGet(tier, cs.c[tier], k, t)
      a1 == IF tier # "section" THEN cs.a
            ELSE IF r.found THEN Append(RemoveKey(cs.a, k), k)
                 ELSE AccessSync(cs.a, r.m)
  IN [cs |-> [c |-> [cs.c EXCEPT ![tier] = r.m], a |-> a1], r |-> r]

MgrSet(cs, tier, k, data, ttl, t, ms) ==
  LET m1 == StrategySet(tier, cs.c[tier], k, data, ttl, t, ms)
      a1 == IF tier # "section" THEN cs.a
            ELSE AccessSync(Append(RemoveKey(cs.a, k), k), m1)
  IN [c |-> [cs.c EXCEPT ![tier] = m1], a |-> a1]

clearAll(cs) == [c |-> [t \in TierNames |-> <<>>], a |-> <<>>]

\* clears every tier, whatever the locale
clearLocale(cs, l) == [c |-> [t \in TierNames |-> <<>>], a |-> <<>>]

MgrCleanup(cs, t) ==
  LET c1 == [tr \in TierNames |-> StrategyCleanup(cs.c[tr], t)]
  IN [c |-> c1, a |-> AccessSync(cs.a, c1["section"])]

CS == [c |-> cache, a |-> accessOrder]

\* ---------------------------------------------------------------------------
\* Cache-only behaviours: the manager driven directly
\* ---------------------------------------------------------------------------
CacheData == {"d1"}
KeyNames == {"k1", "k2"}

TierKeys(tier) ==
  IF tier = "locale" THEN {LocaleKey(l) : l \in Locales}
  ELSE IF tier = "section" THEN {SectionKey(l, s) : l \in Locales, s \in Sections}
  ELSE {KeyKey(l, k) : l \in Locales, k \in KeyNames}

\* the last manager call: its name, its key, what it returned, and for set
\* whether the tier was full when it was called
NoKey == <<>>
NoRet == [op |-> "none", k |-> NoKey, found |-> FALSE, full |-> FALSE]

InitCache ==
  /\ cache = [t \in TierNames |-> <<>>]
  /\ now = 0
  /\ focus \in TierNames
  /\ maxSize \in {n \in 1..Cardinality(TierKeys(focus)) :
                     Capacity(focus, n) < Cardinality(TierKeys(focus))}
  /\ ttlCfg = MaxTtl
  /\ cacheRet = NoRet
  /\ accessOrder = <<>>
  /\ promises = <<>>
  /\ loadingPromises = [k \in LoadKeys |-> 0]
  /\ tasks = <<>>
  /\ exec = NoExec
  /\ StateIdle
  /\ TrackerIdle
  /\ PreloadIdle

CacheGet(tier, k) ==
  /\ tier = focus
  /\ MapHas(cache[tier], k) => MapGet(cache[tier], k).hits < MaxHits
  /\ LET g == MgrGet(CS, tier, k, now)
     IN /\ cache' = g.cs.c
        /\ accessOrder' = g.cs.a
        /\ cacheRet' = [NoRet EXCEPT !.op = "get", !.k = k, !.found = g.r.found]
  /\ UNCHANGED <<now, cfgVars, loaderVars>>

CacheSet(tier, k, data) ==
  /\ tier = focus
  /\ LET s == MgrSet(CS, tier, k, data, ttlCfg, now, maxSize)
     IN /\ cache' = s.c
        /\ accessOrder' = s.a
  /\ cacheRet' = [NoRet EXCEPT !.op = "set", !.k = k,
                               !.full = Len(cache[tier]) >= Capacity(tier, maxSize)]
  /\ UNCHANGED <<now, cfgVars, loaderVars>>

CacheHas(tier, k) ==
  /\ tier = focus
  /\ cacheRet' = [NoRet EXCEPT !.op = "has", !.k = k,
                               !.found = StrategyHas(cache[tier], k, now)]
  /\ UNCHANGED <<cache, accessOrder, now, cfgVars, loaderVars>>

CacheCleanup ==
  /\ LET c == MgrCleanup(CS, now)
     IN /\ cache' = c.c
        /\ accessOrder' = c.a
  /\ cacheRet' = [NoRet EXCEPT !.op = "cleanup"]
  /\ UNCHANGED <<now, cfgVars, loaderVars>>

CacheClear ==
  /\ LET c == clearAll(CS)
     IN /\ cache' = c.c
        /\ accessOrder' = c.a
  /\ cacheRet' = [NoRet EXCEPT !.op = "clear"]
  /\ UNCHANGED <<now, cfgVars, loaderVars>>

\* TranslationCacheManager.clearLocale(l)
CacheClearLocale(l) ==
  /\ LET c == clearLocale(CS, l)
     IN /\ cache' = c.c
        /\ accessOrder' = c.a
  /\ cacheRet' = [NoRet EXCEPT !.op = "clearLocale", !.k = <<l>>]
  /\ UNCHANGED <<now, cfgVars, loaderVars>>

Tick ==
  /\ now < MaxTime
  /\ now' = now + 1
  /\ UNCHANGED <<cache, accessOrder, cacheRet, cfgVars, loaderVars>>

NextCache ==
  \/ \E tier \in TierNames : \E k \in TierKeys(tier) : CacheGet(tier, k)
  \/ \E tier \in TierNames : \E k \in TierKeys(tier) : \E d \in CacheData :
       CacheSet(tier, k, d)
  \/ \E tier \in TierNames : \E k \in TierKeys(tier) : CacheHas(tier, k)
  \/ CacheCleanup
  \/ CacheClear
  \/ \E l \in Locales : CacheClearLocale(l)
  \/ Tick

SpecCache == InitCache /\ [][NextCache]_vars

\* ---------------------------------------------------------------------------
\* Properties of the tiered cache
\* ---------------------------------------------------------------------------
\* an entry of tier under key k that is within its time to live at time now
Fresh(tier, k) ==
  /\ MapHas(cache[tier], k)
  /\ now - MapGet(cache[tier], k).timestamp <= MapGet(cache[tier], k).ttl

FreshCount(tier) == Cardinality({k \in MapKeys(cache[tier]) : Fresh(tier, k)})

\* the step is the manager call op: every call records its name in cacheRet
\* and only the clock's tick leaves cacheRet alone
CalledNow(op) == now' = now /\ cacheRet'.op = op

\* C8: in every tier get returns an entry exactly when now - timestamp <= ttl
\* at the call, has never shows an expired entry, and after a cleanup pass the
\* size of a tier counts exactly the entries that were not expired
C8_TtlVisibility ==
  [][/\ CalledNow("get") => (cacheRet'.found <=> Fresh(focus, cacheRet'.k))
     /\ CalledNow("has") => (cacheRet'.found <=> Fresh(focus, cacheRet'.k))
     /\ CalledNow("cleanup") =>
          \A tier \in TierNames : Len(cache'[tier]) = FreshCount(tier)
    ]_vars

\* has has just answered false for a key whose entry is stored but expired
C8_Witness ==
  /\ cacheRet.op = "has" /\ ~cacheRet.found
  /\ MapHas(cache[focus], cacheRet.k)
  /\ now - MapGet(cache[focus], cacheRet.k).timestamp > MapGet(cache[focus], cacheRet.k).ttl

\* C9: no tier ever holds more entries than its maximum: maxSize for the
\* locale and section tiers, 2 * maxSize for the key tier
C9_SizeBound ==
  /\ Len(cache["locale"]) <= maxSize
  /\ Len(cache["section"]) <= maxSize
  /\ Len(cache["key"]) <= 2 * maxSize

\* a set has just been made on a full tier, which is still exactly full
C9_Witness ==
  /\ cacheRet.op = "set" /\ cacheRet.full
  /\ Len(cache[focus]) = (IF focus = "key" THEN 2 * maxSize ELSE maxSize)
  /\ MapHas(cache[focus], cacheRet.k)

\* C10: in the section tier a set of a new key at capacity evicts exactly one
\* entry, the one whose last access (insertion, update by set, or successful
\* get) is the oldest
C10_LruEvictsLeastRecent ==
  [][\A k \in TierKeys("section") : \A d \in CacheData :
        ( /\ CacheSet("section", k, d)
          /\ ~MapHas(cache["section"], k)
          /\ Len(cache["section"]) >= maxSize )
        => MapKeys(cache'["section"]) =
             (MapKeys(cache["section"]) \ {Head(accessOrder)}) \cup {k}
    ]_vars

\* the keys the step removes from the tier the calls are made on
Evicted == MapKeys(cache[focus]) \ MapKeys(cache'[focus])

HasExpired(tier) == \E i \in 1..Len(cache[tier]) : isExpired(cache[tier][i], now)

\* C33: a set of a new key on a tier that is at capacity and holds at least
\* one expired entry removes an expired entry and no entry that is still valid
C33_ExpiredEvictedFirst ==
  [][( /\ CalledNow("set") /\ cacheRet'.full
       /\ ~MapHas(cache[focus], cacheRet'.k)
       /\ HasExpired(focus) )
     => /\ Evicted # {}
        /\ \A g \in Evicted : isExpired(MapGet(cache[focus], g), now)
    ]_vars

\* C35: a set on a key that is present in a tier at capacity leaves the
\* tier's key set as it was, and leaves the key with the new value and the
\* timestamp of the call
C35_UpdateKeepsKeys ==
  [][( /\ CalledNow("set") /\ cacheRet'.full
       /\ MapHas(cache[focus], cacheRet'.k) )
     => /\ MapKeys(cache'[focus]) = MapKeys(cache[focus])
        /\ MapGet(cache'[focus], cacheRet'.k).timestamp = now
    ]_vars

\* ---------------------------------------------------------------------------
\* Error taxonomy and recovery policy
\* ---------------------------------------------------------------------------
FallbackLocale == "vi"          \* I18N_CONFIG.fallbackLocale
StrategyFallbackLocale == "en"  \* recoveryStrategies 'translation_load'

\* an error: its class, the locale and operation of its context (None when
\* it has none), and whether its message mentions 'network' or 'fetch'
\* (only read for a plain Error)
ErrorOf(cls, l, operation) ==
  [cls |-> cls, locale |-> l, operation |-> operation, message |-> "fetch"]
PlainError == ErrorOf("Error", None, None)
OtherError == [PlainError EXCEPT !.message = "other"]
TranslationLoadError(l) == ErrorOf("TranslationLoadError", l, "load_translation")
TranslationKeyError(l) == ErrorOf("TranslationKeyError", l, "get_translation_key")
SectionLoadError(l) == ErrorOf("SectionLoadError", l, "load_section")
ModuleLoadError(l) == ErrorOf("ModuleLoadError", l, "load_module")
NetworkError(l) == ErrorOf("NetworkError", l, "network_request")
CacheError(operation) == ErrorOf("CacheError", None, operation)

\* an ErrorContext as handed to handleError; fields are None when undefined
Context(l, s, key, m, operation) ==
  [locale |-> l, section |-> s, key |-> key, module |-> m, operation |-> operation]

\* ErrorHandler.wrapError
wrapError(err, ctx) ==
  IF err.cls # "Error" THEN err
  ELSE IF ctx.locale # None /\ ctx.key # None
       THEN TranslationKeyError(ctx.locale)
  ELSE IF ctx.locale # None /\ ctx.section # None
       THEN SectionLoadError(ctx.locale)
  ELSE IF ctx.locale # None /\ ctx.module # None
       THEN ModuleLoadError(ctx.locale)
  ELSE IF ctx.locale # None
       THEN TranslationLoadError(ctx.locale)
  ELSE IF err.message = "fetch"
       THEN NetworkError("unknown")
  ELSE ErrorOf("I18nError", None, IF ctx.operation = None THEN "unknown" ELSE ctx.operation)

getErrorType(err) ==
  CASE err.cls = "NetworkError" -> "network"
    [] err.cls = "TranslationLoadError" -> "translation_load"
    [] err.cls = "TranslationKeyError" -> "translation_key"
    [] err.cls = "SectionLoadError" -> "section_load"
    [] err.cls = "ModuleLoadError" -> "module_load"
    [] err.cls = "CacheError" -> "cache"
    [] err.cls = "ConfigurationError" -> "configuration"
    [] OTHER -> "unknown"

NetworkRetryCount == 3
NetworkRetryDelay == 1000
CacheRetryCount == 1
CacheRetryDelay == 100

\* an ErrorRecoveryStrategy; fields not given are None / Undefined
Strategy(type, fallbackLocale, retryCount, retryDelay) ==
  [type |-> type, fallbackLocale |-> fallbackLocale,
   retryCount |-> retryCount, retryDelay |-> retryDelay]

initializeDefaultStrategies ==
  [network |-> Strategy("retry", None, NetworkRetryCount, NetworkRetryDelay),
   translation_load |-> Strategy("fallback", StrategyFallbackLocale, Undefined, Undefined),
   translation_key |-> Strategy("skip", None, Undefined, Undefined),
   cache |-> Strategy("retry", None, CacheRetryCount, CacheRetryDelay),
   configuration |-> Strategy("abort", None, Undefined, Undefined)]

getRecoveryStrategy(err) ==
  IF getErrorType(err) \in DOMAIN initializeDefaultStrategies
  THEN initializeDefaultStrategies[getErrorType(err)]
  ELSE Strategy("skip", None, Undefined, Undefined)

\* handleError up to the point where the recovery callback is entered:
\* "call" when the loaders' callback starts a fallback load, otherwise the
\* boolean executeRecovery returns without any load
RecoveryEntry(err, ctx) ==
  LET strategy == getRecoveryStrategy(wrapError(err, ctx))
  IN CASE strategy.type = "fallback" /\ strategy.fallbackLocale # None ->
            [do |-> "call", locale |-> strategy.fallbackLocale]
       [] strategy.type = "skip" -> [do |-> "true", locale |-> None]
       [] OTHER -> [do |-> "false", locale |-> None]

\* ---------------------------------------------------------------------------
\* ErrorRecoveryExecutor driven directly: executeRecovery(error, callback)
\* with a callback whose attempts return true, return false or throw
\* ---------------------------------------------------------------------------
MaxRetryCount == 2
MaxRetryDelay == 1
MaxRecoveries == 2
MaxFailures == 2
DefaultRetryCount == 3
DefaultRetryDelay == 1000

\* the strategies setRecoveryStrategy installs for the error's type
CustomStrategies ==
  {Strategy("retry", None, n, d) : n \in (0..MaxRetryCount) \cup {Undefined},
                                   d \in (0..MaxRetryDelay) \cup {Undefined}}
  \cup {Strategy("skip", None, Undefined, Undefined),
        Strategy("abort", None, Undefined, Undefined),
        Strategy("fallback", StrategyFallbackLocale, Undefined, Undefined)}

\* x || dflt on an optional number
OrDefault(x, dflt) == IF x = Undefined \/ x = 0 THEN dflt ELSE x

\* variant: a skip strategy hands the decision to the callback
executeStrategySkipCalls(strategy) ==
  CASE strategy.type = "retry" -> "retry"
    [] strategy.type = "fallback" -> "fallback"
    [] strategy.type = "skip" -> "fallback"
    [] OTHER -> "false"

\* executeStrategy: the branch taken, "true" / "false" when it returns at once
executeStrategy(strategy) ==
  CASE strategy.type = "retry" -> "retry"
    [] strategy.type = "fallback" -> "fallback"
    [] strategy.type = "skip" -> "true"
    [] strategy.type = "abort" -> "false"
    [] OTHER -> "false"

\* ---------------------------------------------------------------------------
\* ErrorTracker and ErrorHandler.handleError
\* ---------------------------------------------------------------------------
maxLogSize == 100
RecentErrors == 10

\* the log entry { error, context: error.context }; id is the error's identity
LogEntry(err, id) ==
  [cls |-> err.cls, locale |-> err.locale, operation |-> err.operation, id |-> id]

\* trackError that never trims the log
trackErrorNoTrim(tr, err, id) ==
  [tr EXCEPT !.errorLog = Append(@, LogEntry(err, id)),
             !.errorCounts[err.cls] = @ + 1,
             !.localeErrorCounts =
                IF err.locale # None THEN [@ EXCEPT ![err.locale] = @ + 1] ELSE @]

\* trackError(error): push, shift once the log is longer than maxLogSize,
\* count the class, count the locale when the context has one
trackError(tr, err, id) ==
  LET pushed == Append(tr.errorLog, LogEntry(err, id))
  IN [tr EXCEPT !.errorLog = IF Len(pushed) > maxLogSize THEN Tail(pushed) ELSE pushed,
                !.errorCounts[err.cls] = @ + 1,
                !.localeErrorCounts =
                   IF err.locale # None THEN [@ EXCEPT ![err.locale] = @ + 1] ELSE @]

\* trackRecoveryAttempt that counts every attempt as a success
trackRecoveryAttemptAlways(tr, success) ==
  [tr EXCEPT !.recoveryAttemptCount = @ + 1, !.recoverySuccessCount = @ + 1]

\* trackRecoveryAttempt that counts no success
trackRecoveryAttemptNoSuccess(tr, success) ==
  [tr EXCEPT !.recoveryAttemptCount = @ + 1]

trackRecoveryAttempt(tr, success) ==
  [tr EXCEPT !.recoveryAttemptCount = @ + 1,
             !.recoverySuccessCount = IF success THEN @ + 1 ELSE @]

clearStatistics(tr) == NewTracker

\* errorLog.slice(-10).map(entry => entry.context)
Recent(log) ==
  [i \in 1..(IF Len(log) < RecentErrors THEN Len(log) ELSE RecentErrors) |->
     LET e == log[Len(log) - (IF Len(log) < RecentErrors THEN Len(log) ELSE RecentErrors) + i]
     IN [locale |-> e.locale, operation |-> e.operation]]

\* getStatistics(); the success rate is kept as successes over attempts
getStatistics(tr) ==
  [totalErrors |-> Len(tr.errorLog),
   errorsByType |-> tr.errorCounts,
   errorsByLocale |-> tr.localeErrorCounts,
   recentErrors |-> Recent(tr.errorLog),
   recoverySuccessRate |->
     IF tr.recoveryAttemptCount > 0
     THEN <<tr.recoverySuccessCount, tr.recoveryAttemptCount>> ELSE <<0, 1>>]

\* the tracker and its history after handleError has wrapped and tracked err
Track(tr, th, err, ctx) ==
  [tr |-> trackError(tr, wrapError(err, ctx), th.arrivals + 1),
   th |-> [th EXCEPT !.arrivals = @ + 1, !.errors = @ + 1]]

RecoveryUnchanged ==
  UNCHANGED <<cache, now, maxSize, ttlCfg, cacheRet, accessOrder, focus,
              promises, loadingPromises, tasks, stateVars, facadeVars, preload>>

\* executeRecovery(error, callback) up to its first await; custom tells
\* whether setRecoveryStrategy replaced the entry of the error's type before
ExecuteRecovery(cls, custom, cstrategy) ==
  /\ exec.pc \in {"idle", "done"}
  /\ tracker.recoveryAttemptCount < MaxRecoveries
  /\ LET strategy == IF custom THEN cstrategy
                     ELSE getRecoveryStrategy(ErrorOf(cls, None, None))
         branch == executeStrategy(strategy)
         run == [NoExec EXCEPT !.cls = cls, !.custom = custom, !.strategy = strategy]
     IN /\ exec' = IF branch \in {"retry", "fallback"}
                   THEN [run EXCEPT !.pc = "call"]
                   ELSE [run EXCEPT !.pc = "done", !.result = (branch = "true")]
        /\ tracker' = IF branch \in {"retry", "fallback"} THEN tracker
                      ELSE trackRecoveryAttempt(tracker, branch = "true")
  /\ UNCHANGED tracked
  /\ RecoveryUnchanged

\* the attempt in progress settles: the callback returned true or false, or threw
CallbackSettle(outcome) ==
  /\ exec.pc = "call"
  /\ LET outs == Append(exec.outcomes, outcome)
         maxRetries == OrDefault(exec.strategy.retryCount, DefaultRetryCount)
         retryDelay == OrDefault(exec.strategy.retryDelay, DefaultRetryDelay)
         run == [exec EXCEPT !.outcomes = outs]
         after ==
          IF exec.strategy.type = "fallback"
          THEN [run EXCEPT !.pc = "done", !.result = (outcome = "true")]
          ELSE IF outcome = "true"
               THEN [run EXCEPT !.pc = "done", !.result = TRUE]
          ELSE IF Len(outs) < maxRetries
               THEN [run EXCEPT !.pc = "delay", !.waits = Append(@, retryDelay)]
          ELSE [run EXCEPT !.pc = "done", !.result = FALSE]
     IN /\ exec' = after
        /\ tracker' = IF after.pc = "done" THEN trackRecoveryAttempt(tracker, after.result)
                      ELSE tracker
  /\ UNCHANGED tracked
  /\ RecoveryUnchanged

\* the delay between two attempts has elapsed
DelayElapsed ==
  /\ exec.pc = "delay"
  /\ exec' = [exec EXCEPT !.pc = "call"]
  /\ UNCHANGED trackVars
  /\ RecoveryUnchanged

NextRecovery ==
  \/ \E cls \in ErrorClasses : ExecuteRecovery(cls, FALSE, Strategy("skip", None, Undefined, Undefined))
  \/ \E cls \in ErrorClasses : \E st \in CustomStrategies : ExecuteRecovery(cls, TRUE, st)
  \/ \E outcome \in {"true", "false", "throw"} : CallbackSettle(outcome)
  \/ DelayElapsed

\* how often the callback has been invoked in the current executeRecovery
Invoked == Len(exec.outcomes) + (IF exec.pc = "call" THEN 1 ELSE 0)

\* C13: a retry strategy with retryCount n and retryDelay d invokes the
\* callback at most n times, returns true at the first successful attempt,
\* false after n failed ones, and waits d between consecutive attempts
C13_RetryStrategy ==
  ( /\ exec.pc # "idle" /\ exec.strategy.type = "retry"
    /\ exec.strategy.retryCount # Undefined /\ exec.strategy.retryDelay # Undefined )
  => /\ Invoked <= exec.strategy.retryCount
     /\ \A i \in 1..(Invoked - 1) : exec.outcomes[i] # "true"
     /\ exec.pc = "done" =>
          /\ exec.result <=> exec.outcomes[Len(exec.outcomes)] = "true"
          /\ ~exec.result => Len(exec.outcomes) = exec.strategy.retryCount
     /\ \A i \in 1..Len(exec.waits) : exec.waits[i] = exec.strategy.retryDelay
     /\ exec.pc = "call" => Len(exec.waits) = Len(exec.outcomes)

\* C14: executeRecovery returns true for a skip strategy, which every error
\* category without a table entry gets, and false for an abort strategy,
\* without invoking the callback in either case
C14_SkipAbortNoCallback ==
  /\ (exec.pc # "idle" /\ exec.strategy.type = "skip")
       => (exec.pc = "done" /\ exec.result /\ Invoked = 0)
  /\ (exec.pc # "idle" /\ exec.strategy.type = "abort")
       => (exec.pc = "done" /\ ~exec.result /\ Invoked = 0)
  /\ ( /\ exec.pc # "idle" /\ ~exec.custom
       /\ exec.cls \in {"SectionLoadError", "ModuleLoadError", "I18nError"} )
       => (exec.pc = "done" /\ exec.result /\ Invoked = 0)

\* executeRecovery has returned true for an error of a category that has no
\* table entry
C14_Witness ==
  /\ exec.pc = "done" /\ exec.result /\ Invoked = 0
  /\ exec.cls = "SectionLoadError" /\ ~exec.custom

\* an executeRecovery call returns in this step: at once (skip, abort) or
\* when its last callback attempt settles
RecoveryReturns ==
  exec'.pc = "done" /\ exec.pc \in {"idle", "done", "call"}

\* C31: every executeRecovery call adds one to the recovery attempts, and
\* one to the recovery successes exactly when it returns true; so the
\* successes never exceed the attempts, and the success rate is 0 while no
\* attempt has been recorded
C31_RecoveryCounters ==
  /\ [](/\ tracker.recoverySuccessCount <= tracker.recoveryAttemptCount
        /\ tracker.recoveryAttemptCount = 0 =>
             getStatistics(tracker).recoverySuccessRate[1] = 0)
  /\ [][IF RecoveryReturns
        THEN /\ tracker'.recoveryAttemptCount = tracker.recoveryAttemptCount + 1
             /\ tracker'.recoverySuccessCount =
                  tracker.recoverySuccessCount + (IF exec'.result THEN 1 ELSE 0)
        ELSE /\ tracker'.recoveryAttemptCount = tracker.recoveryAttemptCount
             /\ tracker'.recoverySuccessCount = tracker.recoverySuccessCount
       ]_vars

\* two executeRecovery calls have returned, one true and then one false
C31_Witness ==
  /\ exec.pc = "done" /\ ~exec.result
  /\ tracker.recoveryAttemptCount = 2
  /\ tracker.recoverySuccessCount = 1

\* ---------------------------------------------------------------------------
\* Translation payloads (one JSON document per locale) and dotted keys.
\* Strings are sequences of characters.
\* ---------------------------------------------------------------------------
Str(x) == [t |-> "str", s |-> x]
Num == [t |-> "num"]
Obj(f) == [t |-> "obj", o |-> f]

Payload(l) ==
  IF l = "en"
  THEN Obj((<<"a">> :> Obj((<<"b">> :> Str(<<"H", "i">>)) @@ (<<"n">> :> Num)
                           @@ (<<"e">> :> Str(<<>>)))))
  ELSE Obj((<<"a">> :> Obj((<<"b">> :> Str(<<"X", "i", "n">>))
                           @@ (<<"c">> :> Str(<<"V">>)))))

\* String.prototype.split('.')
RECURSIVE SplitFrom(_, _, _, _)
SplitFrom(str, i, parts, cur) ==
  IF i > Len(str) THEN Append(parts, cur)
  ELSE IF str[i] = "." THEN SplitFrom(str, i + 1, Append(parts, cur), <<>>)
  ELSE SplitFrom(str, i + 1, parts, Append(cur, str[i]))

Split(str) == SplitFrom(str, 1, <<>>, <<>>)

\* KeyLevelLoader.extractKeyValue
RECURSIVE ExtractFrom(_, _, _, _)
ExtractFrom(value, keyParts, i, key) ==
  IF i > Len(keyParts)
  THEN IF value.t # "str" THEN key ELSE value.s
  ELSE IF value.t = "obj" /\ keyParts[i] \in DOMAIN value.o
       THEN ExtractFrom(value.o[keyParts[i]], keyParts, i + 1, key)
       ELSE key

\* variant: the key is looked up as one segment, without splitting
extractKeyValueUnsplit(data, key) == ExtractFrom(data, <<key>>, 1, key)

extractKeyValue(data, key) == ExtractFrom(data, Split(key), 1, key)

\* JS truthiness of a string
Truthy(str) == Len(str) > 0

\* ---------------------------------------------------------------------------
\* DynamicModuleLoader
\* ---------------------------------------------------------------------------
NoHandle == [t |-> "none", v |-> None, p |-> 0, owner |-> FALSE]
NoOut == [t |-> "none", v |-> None]

\* an unused slot of the promise table
FreePromise ==
  [locale |-> None, section |-> None, st |-> "free", val |-> None,
   cleaned |-> FALSE, recovery |-> "none", reqs |-> <<>>]

IsFree(ps, i) == ps[i].st = "free"
FreeSlot(ps) == CHOOSE i \in DOMAIN ps : IsFree(ps, i) /\ \A j \in 1..(i - 1) : ~IsFree(ps, j)

NewPromise(l, s) ==
  [locale |-> l, section |-> s, st |-> "fetch", val |-> None,
   cleaned |-> FALSE, recovery |-> "none",
   reqs |-> <<[res |-> l, res_ok |-> "pending"]>>]

\* load(locale, section) up to its first await.  ls is
\* [cs, ps, lp, tr, th]: cache state, promises, loadingPromises, the error
\* tracker and its history
ModLoad(ls, l, s, t, ms, ttl) ==
  IF ls.lp[<<l, s>>] # 0
  THEN [ok |-> TRUE, ls |-> ls,
        h |-> [t |-> "p", v |-> None, p |-> ls.lp[<<l, s>>], owner |-> FALSE]]
  ELSE LET g == IF s # NoSection THEN MgrGet(ls.cs, "section", SectionKey(l, s), t)
                                 ELSE MgrGet(ls.cs, "locale", LocaleKey(l), t)
       IN IF g.r.found
          THEN [ok |-> TRUE, ls |-> [ls EXCEPT !.cs = g.cs],
                h |-> [t |-> "val", v |-> g.r.e.data, p |-> 0, owner |-> FALSE]]
          ELSE IF \A i \in DOMAIN ls.ps : ~IsFree(ls.ps, i)
               THEN [ok |-> FALSE, ls |-> ls, h |-> NoHandle]
               ELSE [ok |-> TRUE,
                     ls |-> [ls EXCEPT
                               !.cs = g.cs,
                               !.th.fetched[l] = @ + 1,
                               !.ps = [ls.ps EXCEPT ![FreeSlot(ls.ps)] = NewPromise(l, s)],
                               !.lp = [ls.lp EXCEPT ![<<l, s>>] = FreeSlot(ls.ps)]],
                     h |-> [t |-> "p", v |-> None, p |-> FreeSlot(ls.ps),
                            owner |-> TRUE]]

SetLastReq(p, ok) ==
  [p EXCEPT !.reqs[Len(p.reqs)].res_ok = IF ok THEN "ok" ELSE "fail"]

AddReq(p, l) == [p EXCEPT !.reqs = Append(p.reqs, [res |-> l, res_ok |-> "pending"])]

\* performLoad resumed by the settling of its outstanding fetch
performLoad(cs, p0, ok, t, ms, ttl) ==
  LET p == SetLastReq(p0, ok)
      l == p.locale
      s == p.section
  IN CASE p.st = "fetch" /\ ok ->
            [cs |-> IF s # NoSection
                    THEN MgrSet(cs, "section", SectionKey(l, s), l, ttl, t, ms)
                    ELSE MgrSet(cs, "locale", LocaleKey(l), l, ttl, t, ms),
             p |-> [p EXCEPT !.st = "ok", !.val = l]]
       [] p.st = "fetch" /\ ~ok ->
            LET e == RecoveryEntry(PlainError, Context(l, s, None, None, "load_module"))
            IN CASE e.do = "call" ->
                      [cs |-> cs, p |-> AddReq([p EXCEPT !.st = "recover"], e.locale)]
                 [] e.do = "true" ->
                      [cs |-> cs,
                       p |-> AddReq([p EXCEPT !.st = "fallback", !.recovery = "true"],
                                    FallbackLocale)]
                 [] OTHER ->
                      [cs |-> cs,
                       p |-> [p EXCEPT !.st = "err", !.val = l, !.recovery = "false"]]
       [] p.st = "recover" /\ ok ->
            [cs |-> cs,
             p |-> AddReq([p EXCEPT !.st = "fallback", !.recovery = "true"],
                          FallbackLocale)]
       [] p.st = "recover" /\ ~ok ->
            [cs |-> cs, p |-> [p EXCEPT !.st = "err", !.val = l, !.recovery = "false"]]
       [] p.st = "fallback" /\ ok ->
            [cs |-> cs, p |-> [p EXCEPT !.st = "ok", !.val = FallbackLocale]]
       [] OTHER ->
            [cs |-> cs, p |-> [p EXCEPT !.st = "err", !.val = FallbackLocale]]

\* the error handler's part of the same resumption: tk is [tr, th].  A
\* failed first fetch goes through handleError, which tracks the wrapped
\* error and enters executeRecovery; executeRecovery tracks its attempt once
\* the strategy has run, at once for skip and abort, and for fallback when
\* the callback's loadFallback has settled
Handled(tk, err, ctx) == Track(tk.tr, tk.th, err, ctx)

Attempted(tk, success) == [tk EXCEPT !.tr = trackRecoveryAttempt(@, success)]

FetchFailed(tk, res) == [tk EXCEPT !.th.failed[res] = @ + 1]

\* the fetches that have failed so far
Failures == SumOver(tracked.failed, Locales)

performLoadTracker(tk0, p0, ok) ==
  LET tk == IF ok THEN tk0 ELSE FetchFailed(tk0, p0.reqs[Len(p0.reqs)].res)
      ctx == Context(p0.locale, p0.section, None, None, "load_module")
      e == RecoveryEntry(PlainError, ctx)
  IN CASE p0.st = "fetch" /\ ~ok ->
            IF e.do = "call" THEN Handled(tk, PlainError, ctx)
            ELSE Attempted(Handled(tk, PlainError, ctx), e.do = "true")
       [] p0.st = "recover" -> Attempted(tk, ok)
       [] OTHER -> tk

Pending(p) == p.st \in {"fetch", "recover", "fallback"}
Settled(p) == p.st \in {"ok", "err"}

\* key.startsWith(locale) on the cacheKeys of the universe
StartsWith(k, l) == k[1] = l

unloadKeys(lp, l) == [k \in DOMAIN lp |-> IF StartsWith(k, l) THEN 0 ELSE lp[k]]

TK == [tr |-> tracker, th |-> tracked]

WithTk(ls, tk) == [ls EXCEPT !.tr = tk.tr, !.th = tk.th]

LS == [cs |-> CS, ps |-> promises, lp |-> loadingPromises, tr |-> tracker, th |-> tracked]

\* a settled promise nobody awaits any more is garbage: its slot is reused
Release(ps, ts) ==
  [i \in DOMAIN ps |->
     IF ps[i].cleaned /\ \A j \in 1..Len(ts) : ~(ts[j].h.t = "p" /\ ts[j].h.p = i)
     THEN FreePromise ELSE ps[i]]

\* the loader state seen by task i once its await has returned
Resumed(i) ==
  [LS EXCEPT !.ps = Release(promises, [tasks EXCEPT ![i].h = NoHandle])]

HandleReady(h, ps) ==
  \/ h.t = "val"
  \/ h.t = "p" /\ Settled(ps[h.p]) /\ (h.owner => ps[h.p].cleaned)

HandleResult(h, ps) ==
  IF h.t = "val" THEN [t |-> "ok", v |-> h.v]
  ELSE [t |-> ps[h.p].st, v |-> ps[h.p].val]

\* ---------------------------------------------------------------------------
\* The loader's clients: direct DynamicModuleLoader.load calls ("mload"),
\* IntelligentLoadingStrategy.load ("sload") and KeyLevelLoader.loadKey ("key")
\* ---------------------------------------------------------------------------
LoaderKeys == {<<"a", ".", "b">>, <<"a", ".", "c">>, <<"a">>}

NewTask(kind, l, s, key) ==
  [kind |-> kind, locale |-> l, section |-> s, key |-> key, pc |-> "wait",
   h |-> NoHandle, out |-> NoOut, got |-> None, rec |-> "none", src |-> 0,
   errors |-> 0]

\* history: the call whose load created the promise a new load call awaits
\* (the new call itself when it starts the load, 0 on a cache hit)
LoadSource(h, ts) ==
  IF h.t # "p" THEN 0
  ELSE IF h.owner THEN Len(ts) + 1
  ELSE IF \E j \in 1..Len(ts) : ts[j].h.t = "p" /\ ts[j].h.p = h.p /\ ts[j].h.owner
       THEN CHOOSE j \in 1..Len(ts) : ts[j].h.t = "p" /\ ts[j].h.p = h.p /\ ts[j].h.owner
       ELSE 0

CommitWith(ls, ts, pre) ==
  /\ cache' = ls.cs.c
  /\ accessOrder' = ls.cs.a
  /\ promises' = ls.ps
  /\ loadingPromises' = ls.lp
  /\ tasks' = ts
  /\ tracker' = ls.tr
  /\ tracked' = ls.th
  /\ preload' = pre
  /\ UNCHANGED <<now, baseVars, cacheRet>>

Commit(ls, ts) == CommitWith(ls, ts, preload)

Done(task, out) == [task EXCEPT !.pc = "done", !.h = NoHandle, !.out = out]

InitLoader ==
  /\ cache = [t \in TierNames |-> <<>>]
  /\ now = 0
  /\ focus = "none"
  /\ maxSize = MaxSizeBound
  /\ ttlCfg = MaxTtl
  /\ cacheRet = NoRet
  /\ accessOrder = <<>>
  /\ promises = [i \in 1..MaxTasks |-> FreePromise]
  /\ loadingPromises = [k \in LoadKeys |-> 0]
  /\ tasks = <<>>
  /\ exec = NoExec
  /\ StateIdle
  /\ TrackerIdle
  /\ PreloadIdle

\* DynamicModuleLoader.load(l, s) called by a client
CallLoad(l, s) ==
  /\ Len(tasks) < MaxTasks
  /\ LET r == ModLoad(LS, l, s, now, maxSize, ttlCfg)
     IN /\ r.ok
        /\ Commit([r.ls EXCEPT !.th.unloaded = @ \ {l}],
                  Append(tasks, [NewTask("mload", l, s, <<>>) EXCEPT
                                   !.h = r.h, !.src = LoadSource(r.h, tasks)]))

\* the client's await on load() returns
ResumeLoad(i) ==
  /\ tasks[i].kind = "mload" /\ tasks[i].pc = "wait"
  /\ HandleReady(tasks[i].h, promises)
  /\ Commit(Resumed(i), [tasks EXCEPT ![i] = Done(@, HandleResult(tasks[i].h, promises))])

\* the network answers the outstanding fetch of performLoad / loadFallback
FetchSettle(i, ok) ==
  /\ Pending(promises[i])
  /\ ok \/ Failures < MaxFailures
  /\ LET r == performLoad(CS, promises[i], ok, now, maxSize, ttlCfg)
         tk == performLoadTracker(TK, promises[i], ok)
         th == IF Pending(r.p)
               THEN [tk.th EXCEPT !.fetched[r.p.reqs[Len(r.p.reqs)].res] = @ + 1]
               ELSE tk.th
     IN Commit([LS EXCEPT !.cs = r.cs, !.ps = [promises EXCEPT ![i] = r.p],
                          !.tr = tk.tr, !.th = th], tasks)

\* load() after `await loadingPromise`: loadingPromises.delete(cacheKey)
LoadSettled(i) ==
  /\ Settled(promises[i]) /\ ~promises[i].cleaned
  /\ Commit([LS EXCEPT
               !.ps = [promises EXCEPT ![i].cleaned = TRUE],
               !.lp = [loadingPromises EXCEPT
                         ![<<promises[i].locale, promises[i].section>>] = 0]],
            tasks)

\* DynamicModuleLoader.unload(l)
Unload(l) ==
  /\ Commit([LS EXCEPT !.cs = clearLocale(CS, l),
                        !.lp = unloadKeys(loadingPromises, l),
                        !.th.unloaded = @ \cup {l}], tasks)

\* IntelligentLoadingStrategy.load(l, s) up to its first await
CallStrategyLoad(l, s) ==
  /\ Len(tasks) < MaxTasks
  /\ LET g == IF s # NoSection THEN MgrGet(CS, "section", SectionKey(l, s), now)
                               ELSE MgrGet(CS, "locale", LocaleKey(l), now)
         r == ModLoad([LS EXCEPT !.cs = g.cs], l, s, now, maxSize, ttlCfg)
         task == NewTask("sload", l, s, <<>>)
     IN IF g.r.found
        THEN Commit([LS EXCEPT !.cs = g.cs],
                    Append(tasks, Done(task, [t |-> "ok", v |-> g.r.e.data])))
        ELSE /\ r.ok
             /\ Commit(r.ls, Append(tasks, [task EXCEPT !.h = r.h]))

\* `this.metrics.errors++` at the head of the catch block of
\* IntelligentLoadingStrategy.load; the task keeps the increments its call made
Erred(task) == [task EXCEPT !.errors = @ + 1]

\* IntelligentLoadingStrategy.load resumed by the load it awaits
ResumeStrategy(i) ==
  /\ tasks[i].kind = "sload" /\ tasks[i].pc # "done"
  /\ HandleReady(tasks[i].h, promises)
  /\ LET t0 == tasks[i]
         res == HandleResult(t0.h, promises)
         task == IF t0.pc = "wait" /\ res.t = "err" THEN Erred(t0) ELSE t0
         ctx == Context(task.locale, task.section, None, None, "load_locale")
         e == RecoveryEntry(TranslationLoadError(res.v), ctx)
         handled == Handled(TK, TranslationLoadError(res.v), ctx)
         rl == ModLoad(Resumed(i), e.locale, task.section, now, maxSize, ttlCfg)
         rf == ModLoad(Resumed(i), FallbackLocale, task.section, now, maxSize, ttlCfg)
     IN CASE task.pc = "wait" /\ res.t = "ok" ->
               Commit(Resumed(i), [tasks EXCEPT ![i] = Done(task, res)])
          [] task.pc = "wait" /\ res.t = "err" /\ e.do = "call" ->
               /\ rl.ok
               /\ Commit(WithTk(rl.ls, handled), [tasks EXCEPT ![i] =
                    [task EXCEPT !.pc = "rec", !.h = rl.h, !.out = res]])
          [] task.pc = "wait" /\ res.t = "err" /\ e.do = "true" ->
               /\ rf.ok
               /\ Commit(WithTk(rf.ls, Attempted(handled, TRUE)), [tasks EXCEPT ![i] =
                    [task EXCEPT !.pc = "fb", !.h = rf.h, !.rec = "true"]])
          [] task.pc = "wait" /\ res.t = "err" /\ e.do = "false" ->
               Commit(WithTk(Resumed(i), Attempted(handled, FALSE)),
                      [tasks EXCEPT ![i] = Done([task EXCEPT !.rec = "false"], res)])
          [] task.pc = "rec" /\ res.t = "ok" ->
               /\ rf.ok
               /\ Commit(WithTk(rf.ls, Attempted(TK, TRUE)), [tasks EXCEPT ![i] =
                    [task EXCEPT !.pc = "fb", !.h = rf.h, !.rec = "true"]])
          [] task.pc = "rec" /\ res.t = "err" ->
               Commit(WithTk(Resumed(i), Attempted(TK, FALSE)), [tasks EXCEPT ![i] =
                    Done([task EXCEPT !.rec = "false"], task.out)])
          [] task.pc = "fb" /\ res.t = "ok" ->
               Commit(Resumed(i), [tasks EXCEPT ![i] = Done(task, res)])
          [] OTHER ->
               Commit(Resumed(i), [tasks EXCEPT ![i] =
                    Done(task, [t |-> "err", v |-> FallbackLocale])])

\* variant: loadKeyFromFallback without its catch block
loadKeyFromFallbackNoCatch(res, key) ==
  IF res.t = "ok" THEN [t |-> "ok", v |-> extractKeyValue(Payload(res.v), key)]
  ELSE [t |-> "err", v |-> res.v]

\* KeyLevelLoader.loadKeyFromFallback once the load it awaits has settled as res
loadKeyFromFallback(res, key) ==
  IF res.t = "ok" THEN [t |-> "ok", v |-> extractKeyValue(Payload(res.v), key)]
  ELSE [t |-> "ok", v |-> key]

\* KeyLevelLoader.loadKey(l, key) up to its first await
CallLoadKey(l, key) ==
  /\ Len(tasks) < MaxTasks
  /\ LET g == MgrGet(CS, "key", KeyKey(l, key), now)
         r == ModLoad([LS EXCEPT !.cs = g.cs], l, NoSection, now, maxSize, ttlCfg)
         task == NewTask("key", l, NoSection, key)
     IN IF g.r.found
        THEN Commit([LS EXCEPT !.cs = g.cs],
                    Append(tasks, Done(task, [t |-> "ok", v |-> g.r.e.data])))
        ELSE /\ r.ok
             /\ Commit(r.ls, Append(tasks, [task EXCEPT !.h = r.h]))

\* KeyLevelLoader.loadKey / loadKeyFromFallback resumed by the load it awaits
ResumeKey(i) ==
  /\ tasks[i].kind = "key" /\ tasks[i].pc # "done"
  /\ HandleReady(tasks[i].h, promises)
  /\ LET task == tasks[i]
         res == HandleResult(task.h, promises)
         value == extractKeyValue(Payload(res.v), task.key)
         fb == loadKeyFromFallback(res, task.key)
         got == IF res.t = "ok" THEN res.v ELSE None
         ctx == Context(task.locale, None, task.key, None, "load_key")
         e == RecoveryEntry(TranslationLoadError(res.v), ctx)
         handled == Handled(TK, TranslationLoadError(res.v), ctx)
         rl == ModLoad(Resumed(i), e.locale, NoSection, now, maxSize, ttlCfg)
         rf == ModLoad(Resumed(i), FallbackLocale, NoSection, now, maxSize, ttlCfg)
     IN CASE task.pc = "wait" /\ res.t = "ok" ->
               Commit([Resumed(i) EXCEPT !.cs = MgrSet(CS, "key", KeyKey(task.locale, task.key),
                                               value, ttlCfg, now, maxSize)],
                      [tasks EXCEPT ![i] =
                         Done([task EXCEPT !.got = res.v], [t |-> "ok", v |-> value])])
          [] task.pc = "wait" /\ res.t = "err" /\ e.do = "call" ->
               /\ rl.ok
               /\ Commit(WithTk(rl.ls, handled),
                         [tasks EXCEPT ![i] = [task EXCEPT !.pc = "rec", !.h = rl.h]])
          [] task.pc = "wait" /\ res.t = "err" /\ e.do = "true" ->
               /\ rf.ok
               /\ Commit(WithTk(rf.ls, Attempted(handled, TRUE)), [tasks EXCEPT ![i] =
                    [task EXCEPT !.pc = "fb", !.h = rf.h, !.rec = "true"]])
          [] task.pc = "wait" /\ res.t = "err" /\ e.do = "false" ->
               Commit(WithTk(Resumed(i), Attempted(handled, FALSE)), [tasks EXCEPT ![i] =
                    Done([task EXCEPT !.rec = "false"], [t |-> "ok", v |-> task.key])])
          [] task.pc = "rec" /\ fb.t = "ok" /\ Truthy(fb.v) ->
               /\ rf.ok
               /\ Commit(WithTk(rf.ls, Attempted(TK, TRUE)), [tasks EXCEPT ![i] =
                    [task EXCEPT !.pc = "fb", !.h = rf.h, !.rec = "true"]])
          [] task.pc = "rec" ->
               Commit(WithTk(Resumed(i), Attempted(TK, FALSE)), [tasks EXCEPT ![i] =
                    Done([task EXCEPT !.rec = "false"], [t |-> "ok", v |-> task.key])])
          [] OTHER ->
               Commit(Resumed(i), [tasks EXCEPT ![i] = Done([task EXCEPT !.got = got], fb)])

LoaderTick ==
  /\ now < MaxTime
  /\ now' = now + 1
  /\ UNCHANGED <<cache, accessOrder, cacheRet, cfgVars, loaderVars>>

ModuleSteps ==
  \/ \E i \in DOMAIN promises : \E ok \in BOOLEAN : FetchSettle(i, ok)
  \/ \E i \in DOMAIN promises : LoadSettled(i)
  \/ LoaderTick

NextLoad ==
  \/ \E l \in Locales : \E s \in LoadSections \cup {NoSection} : CallLoad(l, s)
  \/ \E i \in 1..Len(tasks) : ResumeLoad(i)
  \/ ModuleSteps

NextLoader ==
  \/ \E l \in Locales : \E s \in LoadSections \cup {NoSection} : CallLoad(l, s)
  \/ \E i \in 1..Len(tasks) : ResumeLoad(i)
  \/ \E l \in Locales : Unload(l)
  \/ ModuleSteps

NextStrategy ==
  \/ \E l \in Locales : \E s \in LoadSections \cup {NoSection} : CallStrategyLoad(l, s)
  \/ \E i \in 1..Len(tasks) : ResumeStrategy(i)
  \/ ModuleSteps

NextKey ==
  \/ \E l \in Locales : \E key \in LoaderKeys : CallLoadKey(l, key)
  \/ \E i \in 1..Len(tasks) : ResumeKey(i)
  \/ ModuleSteps

SpecLoad == InitLoader /\ [][NextLoad]_vars
SpecLoader == InitLoader /\ [][NextLoader]_vars
SpecStrategy == InitLoader /\ [][NextStrategy]_vars
SpecKey == InitLoader /\ [][NextKey]_vars
SpecRecovery == InitLoader /\ [][NextRecovery]_vars

\* ---------------------------------------------------------------------------
\* Preloading: DynamicModuleLoader.preload, IntelligentLoadingStrategy.preload
\* and PreloadingManager.preloadLocales / preloadSections.  The loads of a
\* batch are started synchronously by locales.map, each running to its first
\* await; they are entries of `tasks`, resumed like any other load
\* ---------------------------------------------------------------------------
MaxBatches == 2

PreloadLists == {<<"en", "vi">>, <<"vi">>}
SectionLists == {<<"common">>}

\* a preload call: the loads it started (indices of tasks) and its result
NewBatch(kind, l, list, kids) ==
  [kind |-> kind, locale |-> l, list |-> list, kids |-> kids, pc |-> "wait",
   out |-> None, noop |-> FALSE]

\* DynamicModuleLoader.load(l, s) called: the loader state and the calls after
\* it has run to its first await
ModuleCall(st, l, s) ==
  LET r == ModLoad(st.ls, l, s, now, maxSize, ttlCfg)
  IN [ok |-> st.ok /\ r.ok, ls |-> r.ls,
      ts |-> Append(st.ts, [NewTask("mload", l, s, <<>>) EXCEPT
                              !.h = r.h, !.src = LoadSource(r.h, st.ts)])]

\* IntelligentLoadingStrategy.load(l, s) called
StrategyCall(st, l, s) ==
  LET g == IF s # NoSection THEN MgrGet(st.ls.cs, "section", SectionKey(l, s), now)
                            ELSE MgrGet(st.ls.cs, "locale", LocaleKey(l), now)
      r == ModLoad([st.ls EXCEPT !.cs = g.cs], l, s, now, maxSize, ttlCfg)
      task == NewTask("sload", l, s, <<>>)
  IN IF g.r.found
     THEN [ok |-> st.ok, ls |-> [st.ls EXCEPT !.cs = g.cs],
           ts |-> Append(st.ts, Done(task, [t |-> "ok", v |-> g.r.e.data]))]
     ELSE [ok |-> st.ok /\ r.ok, ls |-> r.ls, ts |-> Append(st.ts, [task EXCEPT !.h = r.h])]

\* locales.map(locale => this.load(locale)) of the two preload methods
RECURSIVE MapLoad(_, _, _)
MapLoad(kind, st, locales) ==
  IF locales = <<>> \/ ~st.ok THEN st
  ELSE MapLoad(kind,
               IF kind = "mpreload" THEN ModuleCall(st, Head(locales), NoSection)
               ELSE StrategyCall(st, Head(locales), NoSection),
               Tail(locales))

\* sections.map(section => this.loadingStrategy.load(locale)) of preloadSections
RECURSIVE MapSections(_, _, _)
MapSections(st, l, sections) ==
  IF sections = <<>> \/ ~st.ok THEN st
  ELSE MapSections(StrategyCall(st, l, NoSection), l, Tail(sections))

Started == [ok |-> TRUE, ls |-> LS, ts |-> tasks]

Kids(ts) == [n \in 1..(Len(ts) - Len(tasks)) |-> Len(tasks) + n]

\* .catch(error => console.warn(...)): a rejected load becomes a resolved one
Caught(out) == IF out.t = "err" THEN [t |-> "ok", v |-> None] ELSE out

\* variant: what the batch would settle with under Promise.all over the loads
\* themselves
preloadResultAll(outs) ==
  IF \E n \in 1..Len(outs) : outs[n].t = "err" THEN "err" ELSE "ok"

\* Promise.allSettled resolves whatever its promises settle with
allSettled(outs) == "ok"

\* await Promise.allSettled(preloadPromises) over the caught loads
preloadResult(outs) == allSettled([n \in 1..Len(outs) |-> Caught(outs[n])])

\* moduleLoader.preload(list) or loadingStrategy.preload(list) up to its await
Preload(kind, list) ==
  /\ Len(preload.batches) < MaxBatches
  /\ LET r == MapLoad(kind, Started, list)
     IN /\ r.ok
        /\ CommitWith(r.ls, r.ts,
             [preload EXCEPT !.batches = Append(@, NewBatch(kind, None, list, Kids(r.ts)))])

RECURSIVE AddAll(_, _)
AddAll(q, list) == IF list = <<>> THEN q ELSE AddAll(Include(q, Head(list)), Tail(list))

\* PreloadingManager.preloadLocales(list) up to its await, or to its return
\* when a batch is in flight; kind tells who called: "plocales" a direct
\* caller, "plocale" the facade's preloadLocale
preloadLocales(kind, list) ==
  /\ Len(preload.batches) < MaxBatches
  /\ IF preload.isPreloading
     THEN CommitWith(LS, tasks,
               [preload EXCEPT !.batches = Append(@,
                  [NewBatch(kind, None, list, <<>>) EXCEPT
                     !.pc = "done", !.out = "ok", !.noop = TRUE])])
     ELSE LET r == MapLoad("spreload", Started, list)
          IN /\ r.ok
             /\ CommitWith(r.ls, r.ts,
                  [preload EXCEPT
                     !.isPreloading = TRUE,
                     !.preloadQueue = AddAll(@, list),
                     !.batches = Append(@, NewBatch(kind, None, list, Kids(r.ts)))])

PreloadLocales(list) == preloadLocales("plocales", list)

\* EnterpriseI18nSystem.preloadLocale(l) without a section: it awaits
\* preloadLocales([l]) and swallows what that throws
PreloadLocale(l) == preloadLocales("plocale", <<l>>)

\* preloadSections(l, sections) up to its await
PreloadSections(l, sections) ==
  /\ Len(preload.batches) < MaxBatches
  /\ LET r == MapSections(Started, l, sections)
     IN /\ r.ok
        /\ CommitWith(r.ls, r.ts,
             [preload EXCEPT !.batches =
                Append(@, NewBatch("psections", l, sections, Kids(r.ts)))])

\* every load of the batch has settled: the await returns; preloadLocales
\* clears its queue and, in finally, its flag
BatchSettle(b) ==
  /\ preload.batches[b].pc = "wait"
  /\ \A n \in 1..Len(preload.batches[b].kids) : tasks[preload.batches[b].kids[n]].pc = "done"
  /\ LET batch == preload.batches[b]
         outs == [n \in 1..Len(batch.kids) |-> tasks[batch.kids[n]].out]
         ended == [batch EXCEPT !.pc = "done", !.out = preloadResult(outs)]
     IN CommitWith(LS, tasks,
          IF batch.kind \in {"plocales", "plocale"}
          THEN [preload EXCEPT !.batches[b] = ended,
                               !.preloadQueue = IF ended.out = "ok" THEN <<>> ELSE @,
                               !.isPreloading = FALSE]
          ELSE [preload EXCEPT !.batches[b] = ended])

NextPreload ==
  \/ \E kind \in {"mpreload", "spreload"} : \E list \in PreloadLists : Preload(kind, list)
  \/ \E list \in PreloadLists : PreloadLocales(list)
  \/ \E l \in Locales : PreloadLocale(l)
  \/ \E l \in Locales : \E sections \in SectionLists : PreloadSections(l, sections)
  \/ \E b \in 1..Len(preload.batches) : BatchSettle(b)
  \/ \E i \in 1..Len(tasks) : ResumeLoad(i)
  \/ \E i \in 1..Len(tasks) : ResumeStrategy(i)
  \/ \E i \in DOMAIN promises : \E ok \in BOOLEAN : FetchSettle(i, ok)
  \/ \E i \in DOMAIN promises : LoadSettled(i)

SpecPreload == InitLoader /\ [][NextPreload]_vars

\* ---------------------------------------------------------------------------
\* Properties of preloading
\* ---------------------------------------------------------------------------
InTier(tier, k) == \E n \in 1..Len(cache[tier]) : cache[tier][n].k = k

\* C21: preload(locales) of the module loader and of the loading strategy
\* never rejects, and once it has returned every listed locale whose fetch
\* did not fail is in the locale tier, whatever happened to the other loads
C21_PreloadIsolation ==
  \A b \in 1..Len(preload.batches) :
    LET batch == preload.batches[b]
    IN (batch.kind \in {"mpreload", "spreload"} /\ batch.pc = "done") =>
         /\ batch.out = "ok"
         /\ \A n \in 1..Len(batch.list) :
              tracked.failed[batch.list[n]] = 0 => InTier("locale", LocaleKey(batch.list[n]))

\* a preload of en and vi has returned; the load of en was rejected, the
\* fetch of vi did not fail and vi is in the locale tier
C21_Witness ==
  \E b \in 1..Len(preload.batches) :
    LET batch == preload.batches[b]
    IN /\ batch.kind = "mpreload" /\ batch.pc = "done" /\ batch.list = <<"en", "vi">>
       /\ tasks[batch.kids[1]].out.t = "err"
       /\ tracked.failed["vi"] = 0
       /\ InTier("locale", LocaleKey("vi"))

\* only preloadLocales was called, twice with the same list, the second time
\* while the first batch was in flight
PreloadedTwice ==
  /\ Len(preload.batches) = 2
  /\ \A b \in 1..2 : preload.batches[b].kind = "plocales"
  /\ preload.batches[1].list = preload.batches[2].list
  /\ preload.batches[2].noop

\* C22: preloadLocales called twice in rapid succession with the same list
\* fetches each locale's resource at most once, whatever the fetches' outcome
C22_OneFetchPerLocale ==
  PreloadedTwice => \A l \in Locales : tracked.fetched[l] <= 1

\* C39: when the facade's preloadLocale(L) has resolved and no fetch of L's
\* resource has failed, L is in the locale tier, also when the call was made
\* while another preload batch was in flight
C39_PreloadLocaleLoads ==
  \A b \in 1..Len(preload.batches) :
    LET batch == preload.batches[b]
    IN (batch.kind = "plocale" /\ batch.pc = "done" /\ tracked.failed[batch.list[1]] = 0)
         => InTier("locale", LocaleKey(batch.list[1]))

\* C23: once preloadSections(L, sections) has returned, it has not rejected,
\* it has issued a section load per listed section, and when no fetch of L
\* failed every listed section of L is in the section tier
C23_SectionsPreloaded ==
  \A b \in 1..Len(preload.batches) :
    LET batch == preload.batches[b]
    IN (batch.kind = "psections" /\ batch.pc = "done") =>
         /\ batch.out = "ok"
         /\ \A n \in 1..Len(batch.list) :
              /\ tasks[batch.kids[n]].section = batch.list[n]
              /\ tracked.failed[batch.locale] = 0 =>
                   InTier("section", SectionKey(batch.locale, batch.list[n]))

\* ---------------------------------------------------------------------------
\* The error tracker and handleError driven directly by their callers
\* ---------------------------------------------------------------------------
MaxTrackCalls == 3

TrackedErrors == {TranslationLoadError("en"), CacheError("get")}
\* a caller's loop tracks the same error once or maxLogSize times
Times == {1, maxLogSize}
HandledErrors == {PlainError, OtherError, TranslationLoadError("en")}
HandledContexts == {Context(l, None, None, None, "load") : l \in Locales \cup {None}}

InitTracker ==
  /\ cache = [t \in TierNames |-> <<>>]
  /\ now = 0
  /\ focus = "none"
  /\ maxSize = MaxSizeBound
  /\ ttlCfg = MaxTtl
  /\ cacheRet = NoRet
  /\ accessOrder = <<>>
  /\ promises = [i \in 1..MaxTasks |-> FreePromise]
  /\ loadingPromises = [k \in LoadKeys |-> 0]
  /\ tasks = <<>>
  /\ exec = NoExec
  /\ StateIdle
  /\ TrackerIdle
  /\ PreloadIdle

TrackerUnchanged ==
  UNCHANGED <<cache, now, cacheRet, accessOrder, promises, loadingPromises, tasks, cfgVars>>

\* a caller's loop of n trackError(err) calls begins: its first call; the
\* loop is synchronous, so nothing else runs until it has ended
TrackErrors(err, n) ==
  /\ tracked.calls < MaxTrackCalls
  /\ tracked.loop.left = 0
  /\ tracker' = trackError(tracker, err, tracked.arrivals + 1)
  /\ tracked' = [tracked EXCEPT !.calls = @ + 1, !.arrivals = @ + 1, !.errors = @ + 1,
                                !.last = NoContext, !.loop = [err |-> err, left |-> n - 1]]
  /\ TrackerUnchanged

\* the next call of the loop
TrackNext ==
  /\ tracked.loop.left > 0
  /\ tracker' = trackError(tracker, tracked.loop.err, tracked.arrivals + 1)
  /\ tracked' = [tracked EXCEPT !.arrivals = @ + 1, !.errors = @ + 1,
                                !.loop.left = @ - 1]
  /\ TrackerUnchanged

TrackRecoveryAttempt(success) ==
  /\ tracked.calls < MaxTrackCalls
  /\ tracked.loop.left = 0
  /\ tracker' = trackRecoveryAttempt(tracker, success)
  /\ tracked' = [tracked EXCEPT !.calls = @ + 1, !.last = NoContext]
  /\ TrackerUnchanged

\* handleError(err, ctx) without a recovery function: wrap, track, resolve false
HandleError(err, ctx) ==
  /\ tracked.calls < MaxTrackCalls
  /\ tracked.loop.left = 0
  /\ LET r == Track(tracker, tracked, err, ctx)
     IN /\ tracker' = r.tr
        /\ tracked' = [r.th EXCEPT !.calls = @ + 1, !.last = ctx]
  /\ TrackerUnchanged

ClearStatistics ==
  /\ tracked.calls < MaxTrackCalls
  /\ tracked.loop.left = 0
  /\ tracker' = clearStatistics(tracker)
  /\ tracked' = [tracked EXCEPT !.calls = @ + 1, !.errors = 0, !.last = NoContext]
  /\ TrackerUnchanged

NextTracker ==
  \/ \E err \in TrackedErrors : \E n \in Times : TrackErrors(err, n)
  \/ TrackNext
  \/ \E success \in BOOLEAN : TrackRecoveryAttempt(success)
  \/ \E err \in HandledErrors : \E ctx \in HandledContexts : HandleError(err, ctx)
  \/ ClearStatistics

SpecTracker == InitTracker /\ [][NextTracker]_vars

\* ---------------------------------------------------------------------------
\* Properties of the error tracker
\* ---------------------------------------------------------------------------
\* C24: the log never holds more than maxLogSize entries and is FIFO: it is
\* the most recent errors tracked since the last clearStatistics, in arrival
\* order
C24_BoundedFifoLog ==
  /\ Len(tracker.errorLog) <= maxLogSize
  /\ Len(tracker.errorLog) =
       (IF tracked.errors < maxLogSize THEN tracked.errors ELSE maxLogSize)
  /\ \A i \in 1..Len(tracker.errorLog) :
       tracker.errorLog[i].id = tracked.arrivals - Len(tracker.errorLog) + i

\* more errors than the log holds were tracked, of different classes
C24_Witness ==
  /\ tracked.errors > maxLogSize
  /\ Len(tracker.errorLog) = maxLogSize
  /\ tracker.errorLog[1].cls # tracker.errorLog[maxLogSize].cls

\* C25: totalErrors equals the number of errors tracked since the last
\* clearStatistics and the sum of the counts in errorsByType
C25_TotalErrors ==
  /\ getStatistics(tracker).totalErrors = tracked.errors
  /\ getStatistics(tracker).totalErrors =
       SumOver(getStatistics(tracker).errorsByType, ErrorClasses)

\* C26: after handleError(error, context) the newest entry of recentErrors
\* carries the locale and the operation of the context passed
C26_HandleErrorContext ==
  tracked.last # NoContext =>
    LET recent == getStatistics(tracker).recentErrors
    IN /\ Len(recent) > 0
       /\ recent[Len(recent)].locale = tracked.last.locale
       /\ recent[Len(recent)].operation = tracked.last.operation

\* every load that was called has returned and no fetch is outstanding
LoadsEnded ==
  /\ \A i \in 1..Len(tasks) : tasks[i].pc = "done"
  /\ \A i \in DOMAIN promises : ~Pending(promises[i])

\* whole-locale loads were called, the fetch of X's resource failed once and
\* no other fetch failed, and the load of X returned a payload
FailedOnceRecovered(X) ==
  /\ LoadsEnded
  /\ \A i \in 1..Len(tasks) : tasks[i].section = NoSection
  /\ \E i \in 1..Len(tasks) : tasks[i].locale = X /\ tasks[i].out.t = "ok"
  /\ tracked.failed[X] = 1
  /\ Failures = 1

\* C27: when a load of X has failed once and was recovered through the
\* fallback locale, the tracker holds exactly one error, a
\* TranslationLoadError for X, none for another locale, and exactly one
\* recovery attempt, counted as successful
C27_OneErrorOneRecovery ==
  \A X \in Locales :
    FailedOnceRecovered(X) =>
      /\ Len(tracker.errorLog) = 1
      /\ tracker.errorLog[1].cls = "TranslationLoadError"
      /\ tracker.errorLog[1].locale = X
      /\ tracker.errorCounts["TranslationLoadError"] = 1
      /\ SumOver(tracker.errorCounts, ErrorClasses) = 1
      /\ \A l \in TrackedLocales : tracker.localeErrorCounts[l] = (IF l = X THEN 1 ELSE 0)
      /\ tracker.recoveryAttemptCount = 1
      /\ tracker.recoverySuccessCount = 1

\* a load of en through the loading strategy failed once and returned the
\* fallback locale's payload
C27_Witness ==
  /\ FailedOnceRecovered("en")
  /\ \E i \in 1..Len(tasks) :
       tasks[i].kind = "sload" /\ tasks[i].locale = "en" /\ tasks[i].out.v = FallbackLocale

\* C32: a call of IntelligentLoadingStrategy.load that has returned has
\* incremented the error counter once when it ended by rejecting, and not at
\* all when it resolved, also when it resolved through fallback recovery
C32_ErrorsCountRejections ==
  \A i \in 1..Len(tasks) :
    tasks[i].kind = "sload" /\ tasks[i].pc = "done" =>
      tasks[i].errors = (IF tasks[i].out.t = "err" THEN 1 ELSE 0)

\* ---------------------------------------------------------------------------
\* The state manager driven directly by its callers
\* ---------------------------------------------------------------------------
Modules == {"core"}
Contexts ==
  [locale : Locales, section : {None} \cup LoadSections, module : {None} \cup Modules]

InitState ==
  /\ cache = [t \in TierNames |-> <<>>]
  /\ now = 0
  /\ focus = "none"
  /\ maxSize = MaxSizeBound
  /\ ttlCfg = MaxTtl
  /\ cacheRet = NoRet
  /\ accessOrder = <<>>
  /\ promises = [i \in 1..MaxTasks |-> FreePromise]
  /\ loadingPromises = [k \in LoadKeys |-> 0]
  /\ tasks = <<>>
  /\ exec = NoExec
  /\ sm = NewStateManager
  /\ storage \in StoredValues
  /\ note = NoNote
  /\ FacadeIdle
  /\ TrackerIdle
  /\ PreloadIdle

StateUnchanged ==
  UNCHANGED <<cache, now, cacheRet, accessOrder, loaderVars, maxSize, ttlCfg, focus, exec,
              preload,
              facadeVars>>

\* the callbacks of `throwing` throw during this call
SetCurrentLocale(l, throwing) ==
  /\ throwing \subseteq SeqRange(sm.observers)
  /\ LET r == setCurrentLocale(sm, storage, l, throwing)
     IN /\ sm' = r.sm
        /\ storage' = r.storage
        /\ note' = [NoNote EXCEPT !.op = "setCurrentLocale", !.arg = l,
                                  !.raised = r.n.raised,
                                  !.event = IF isLocaleSupported(l) THEN "onLocaleChange" ELSE None,
                                  !.got = r.n.got,
                                  !.threw = IF isLocaleSupported(l) THEN throwing ELSE {}]
  /\ StateUnchanged

GetInitialLocale ==
  /\ note' = [NoNote EXCEPT !.op = "getInitialLocale", !.ret = getInitialLocale(storage)]
  /\ UNCHANGED <<sm, storage>>
  /\ StateUnchanged

AddObserver(o) ==
  /\ sm' = [sm EXCEPT !.observers = Include(@, o)]
  /\ note' = [NoNote EXCEPT !.op = "addObserver", !.arg = o]
  /\ UNCHANGED storage
  /\ StateUnchanged

RemoveObserver(o) ==
  /\ sm' = [sm EXCEPT !.observers = Exclude(@, o)]
  /\ note' = [NoNote EXCEPT !.op = "removeObserver", !.arg = o]
  /\ UNCHANGED storage
  /\ StateUnchanged

StartLoading(ctx, throwing) ==
  /\ throwing \subseteq SeqRange(sm.observers)
  /\ LET r == startLoading(sm, ctx, throwing)
     IN /\ sm' = r.sm
        /\ note' = [NoNote EXCEPT !.op = "startLoading", !.arg = ctx.locale,
                                  !.raised = r.n.raised, !.event = "onLoadingStart",
                                  !.got = r.n.got, !.threw = throwing]
  /\ UNCHANGED storage
  /\ StateUnchanged

CompleteLoading(ctx, throwing) ==
  /\ throwing \subseteq SeqRange(sm.observers)
  /\ LET r == completeLoading(sm, ctx, throwing)
     IN /\ sm' = r.sm
        /\ note' = [NoNote EXCEPT !.op = "completeLoading", !.arg = ctx.locale,
                                  !.raised = r.n.raised, !.event = "onLoadingComplete",
                                  !.got = r.n.got, !.threw = throwing]
  /\ UNCHANGED storage
  /\ StateUnchanged

Reset ==
  /\ sm' = reset(sm)
  /\ note' = [NoNote EXCEPT !.op = "reset"]
  /\ UNCHANGED storage
  /\ StateUnchanged

NextState ==
  \/ Reset
  \/ \E l \in AllLocales : \E throwing \in SUBSET Observers : SetCurrentLocale(l, throwing)
  \/ GetInitialLocale
  \/ \E o \in Observers : AddObserver(o)
  \/ \E o \in Observers : RemoveObserver(o)
  \/ \E ctx \in Contexts : \E throwing \in SUBSET Observers : StartLoading(ctx, throwing)
  \/ \E ctx \in Contexts : \E throwing \in SUBSET Observers : CompleteLoading(ctx, throwing)

SpecState == InitState /\ [][NextState]_vars

\* ---------------------------------------------------------------------------
\* Properties of the state manager
\* ---------------------------------------------------------------------------
\* C17: setCurrentLocale(L) with L unsupported raises and leaves currentLocale
\* and the persisted preference as they were, with no observer notified; with
\* L supported it sets currentLocale to L, persists L and notifies every
\* registered observer with L
C17_SetCurrentLocale ==
  [][note'.op = "setCurrentLocale" =>
       IF note'.arg \in SupportedLocales
       THEN /\ ~note'.raised
            /\ sm'.currentLocale = note'.arg
            /\ storage' = note'.arg
            /\ note'.event = "onLocaleChange"
            /\ \A o \in SeqRange(sm.observers) : note'.got[o] >= 1
       ELSE /\ note'.raised
            /\ sm'.currentLocale = sm.currentLocale
            /\ storage' = storage
            /\ note'.got = NoGot
    ]_vars

\* an unsupported locale was refused while observers were registered and a
\* preference was stored
C17_Witness ==
  /\ note.op = "setCurrentLocale"
  /\ note.arg \notin SupportedLocales
  /\ note.raised
  /\ sm.observers # <<>>
  /\ storage \in SupportedLocales
  /\ storage # sm.currentLocale

\* C18: getInitialLocale() returns the persisted locale iff one is stored and
\* supported, the default locale otherwise; after a successful
\* setCurrentLocale(L) it would return L
C18_GetInitialLocale ==
  /\ note.op = "getInitialLocale" =>
       note.ret = (IF storage \in SupportedLocales THEN storage ELSE DefaultLocale)
  /\ (note.op = "setCurrentLocale" /\ ~note.raised) => getInitialLocale(storage) = note.arg

\* a stored locale that is not supported any more was passed over
C18_Witness ==
  /\ note.op = "getInitialLocale"
  /\ storage \in AllLocales \ SupportedLocales
  /\ note.ret = DefaultLocale

\* C19: whatever callbacks throw, the mutating call does not raise and every
\* registered observer is notified of the event exactly once
C19_ObserverIsolation ==
  note.event \in Events =>
    /\ ~note.raised
    /\ \A o \in Observers :
         note.got[o] = (IF o \in SeqRange(sm.observers) THEN 1 ELSE 0)

\* the first of two registered observers threw
C19_Witness ==
  /\ note.event \in Events
  /\ Len(sm.observers) = 2
  /\ sm.observers[1] \in note.threw
  /\ sm.observers[2] \notin note.threw

\* C28: after any sequence of startLoading, completeLoading and reset calls
\* isLoading is true exactly when a locale, a section or a module is loading
C28_LoadingFlagDerived ==
  sm.isLoading <=>
    (sm.loadingLocales # <<>> \/ sm.loadingSections # <<>> \/ sm.loadingModules # <<>>)

\* completeLoading has removed the last loading locale while a section is
\* still loading
C28_Witness ==
  /\ note.op = "completeLoading"
  /\ sm.isLoading /\ sm.loadingLocales = <<>> /\ sm.loadingSections # <<>>

\* ---------------------------------------------------------------------------
\* EnterpriseI18nSystem (facade): setLocale, initialize, getTranslation
\* ---------------------------------------------------------------------------
MaxCalls == 3

\* what `await this.loadingStrategy.load(locale)` can settle with, as the
\* facade sees it: the payload of the locale, the payload of the fallback
\* locale, or a rejection
StrategyOutcomes(l) ==
  {[t |-> "ok", v |-> l], [t |-> "ok", v |-> FallbackLocale], [t |-> "err", v |-> None]}

\* holds under SpecStrategy: a whole-locale load of the loading strategy
\* ends with one of these outcomes
StrategyOutcomesCover ==
  \A i \in 1..Len(tasks) :
    (tasks[i].kind = "sload" /\ tasks[i].pc = "done" /\ tasks[i].section = NoSection) =>
      \/ tasks[i].out.t = "err"
      \/ tasks[i].out \in StrategyOutcomes(tasks[i].locale)

\* a call of the facade; events are the observer events its state manager
\* calls have notified so far
NewCall(kind, l, key) ==
  [kind |-> kind, locale |-> l, key |-> key, pc |-> "load", ret |-> None, events |-> {}]
Returned(call, ret) == [call EXCEPT !.pc = "done", !.ret = ret]
Notified(call, evs) == [call EXCEPT !.events = @ \cup evs]

\* the context setLocale hands to startLoading and completeLoading
SetLocaleContext(l) == [locale |-> l, section |-> None, module |-> None]

addLoadedLocale(s, l) == [s EXCEPT !.loadedLocales = Include(@, l)]
isLocaleLoaded(s, l) == l \in SeqRange(s.loadedLocales)

\* vueI18n.global.t: the message of the key in the locale, else in the
\* fallback locale, else the key (the promise the missing handler returns is
\* not a string)
Resolves(msg, key) == msg # None /\ extractKeyValue(Payload(msg), key) # key
t(msgs, l, key) ==
  IF Resolves(msgs[l], key) THEN extractKeyValue(Payload(msgs[l]), key)
  ELSE IF Resolves(msgs[FallbackLocale], key)
       THEN extractKeyValue(Payload(msgs[FallbackLocale]), key)
       ELSE key

\* the constructor: initializeVueI18n sets the initial locale, which persists it
InitFacade ==
  /\ cache = [tier \in TierNames |-> <<>>]
  /\ now = 0
  /\ focus = "none"
  /\ maxSize = MaxSizeBound
  /\ ttlCfg = MaxTtl
  /\ cacheRet = NoRet
  /\ accessOrder = <<>>
  /\ promises = [i \in 1..MaxTasks |-> FreePromise]
  /\ loadingPromises = [k \in LoadKeys |-> 0]
  /\ tasks = <<>>
  /\ exec = NoExec
  /\ \E saved \in StoredValues :
       LET r == setCurrentLocale(NewStateManager, saved, getInitialLocale(saved), {})
       IN sm = r.sm /\ storage = r.storage
  /\ note = NoNote
  /\ FacadeIdle
  /\ TrackerIdle
  /\ PreloadIdle

FacadeUnchanged ==
  UNCHANGED <<cache, now, cacheRet, accessOrder, loaderVars, maxSize, ttlCfg, focus, exec,
              preload,
              note>>

\* variant: a catch block that also falls back to the default locale
setLocaleCatchDefault(s, l) ==
  [completeLoading(s, SetLocaleContext(l), {}).sm EXCEPT !.currentLocale = DefaultLocale]

\* the catch block of setLocale: completeLoading with the failure, nothing else
setLocaleCatch(s, l) == completeLoading(s, SetLocaleContext(l), {}).sm

\* setLocale(l) up to its first await, or to its return
SetLocale(l) ==
  /\ Len(calls) < MaxCalls
  /\ LET i == Len(calls) + 1
         call == NewCall("setLocale", l, <<>>)
     IN IF ~isLocaleSupported(l)
        THEN \* throw, caught: completeLoading with the failure, return false
             /\ sm' = setLocaleCatch(sm, l)
             /\ calls' = Append(calls, Returned(Notified(call, {"onLoadingComplete"}), "false"))
             /\ loadLog' = Append(loadLog, <<"complete", l, i>>)
        ELSE IF l = sm.currentLocale
        THEN /\ calls' = Append(calls, Returned(call, "true"))
             /\ UNCHANGED <<sm, loadLog>>
        ELSE /\ sm' = startLoading(sm, SetLocaleContext(l), {}).sm
             /\ calls' = Append(calls, Notified(call, {"onLoadingStart"}))
             /\ loadLog' = Append(loadLog, <<"start", l, i>>)
  /\ UNCHANGED <<storage, messages, shown>>
  /\ FacadeUnchanged

\* initialize() up to its first await
Initialize ==
  /\ Len(calls) < MaxCalls
  /\ calls' = Append(calls, NewCall("initialize", getInitialLocale(storage), <<>>))
  /\ UNCHANGED <<sm, storage, messages, loadLog, shown>>
  /\ FacadeUnchanged

\* setLocale resumed by the load it awaited
ResumeSetLocale(i, out) ==
  LET call == calls[i]
      set == setCurrentLocale(sm, storage, call.locale, {})
  IN IF out.t = "ok"
     THEN /\ messages' = [messages EXCEPT ![call.locale] = out.v]
          /\ sm' = completeLoading(addLoadedLocale(set.sm, call.locale),
                                   SetLocaleContext(call.locale), {}).sm
          /\ storage' = set.storage
          /\ calls' = [calls EXCEPT ![i] =
               Returned(Notified(call, {"onLocaleChange", "onLoadingComplete"}), "true")]
          /\ loadLog' = Append(loadLog, <<"complete", call.locale, i>>)
     ELSE /\ sm' = setLocaleCatch(sm, call.locale)
          /\ calls' = [calls EXCEPT ![i] =
               Returned(Notified(call, {"onLoadingComplete"}), "false")]
          /\ loadLog' = Append(loadLog, <<"complete", call.locale, i>>)
          /\ UNCHANGED <<storage, messages>>

\* initialize resumed: after the initial locale the fallback locale is loaded
\* when it differs, and only the fallback's payload is installed; a failure
\* of the first load is rethrown, one of the second is swallowed
ResumeInitialize(i, out) ==
  LET call == calls[i]
  IN /\ IF call.pc = "load"
        THEN /\ calls' = [calls EXCEPT ![i] =
                  IF out.t = "err" THEN Returned(call, "err")
                  ELSE IF call.locale # FallbackLocale THEN [call EXCEPT !.pc = "loadfb"]
                  ELSE Returned(call, "ok")]
             /\ UNCHANGED messages
        ELSE /\ calls' = [calls EXCEPT ![i] = Returned(call, "ok")]
             /\ messages' = IF out.t = "ok"
                            THEN [messages EXCEPT ![FallbackLocale] = out.v]
                            ELSE messages
     /\ UNCHANGED <<sm, storage, loadLog>>

\* the missing handler resumed: it installs what the load returned; every
\* error is swallowed
ResumeMissing(i, out) ==
  /\ messages' = IF out.t = "ok" THEN [messages EXCEPT ![calls[i].locale] = out.v]
                 ELSE messages
  /\ calls' = [calls EXCEPT ![i] = Returned(calls[i], "ok")]
  /\ UNCHANGED <<sm, storage, loadLog>>

\* the locale whose load call i awaits
Awaited(call) == IF call.pc = "loadfb" THEN FallbackLocale ELSE call.locale

\* the load a facade call awaits settles
LoadSettle(i, out) ==
  /\ calls[i].pc # "done"
  /\ out \in StrategyOutcomes(Awaited(calls[i]))
  /\ CASE calls[i].kind = "setLocale" -> ResumeSetLocale(i, out)
       [] calls[i].kind = "initialize" -> ResumeInitialize(i, out)
       [] OTHER -> ResumeMissing(i, out)
  /\ UNCHANGED shown
  /\ FacadeUnchanged

\* an initialize() call has completed successfully
Initialized(cs) == \E i \in 1..Len(cs) : cs[i].kind = "initialize" /\ cs[i].ret = "ok"
InitialLocale(cs) ==
  LET i == CHOOSE j \in 1..Len(cs) : cs[j].kind = "initialize" /\ cs[j].ret = "ok"
  IN cs[i].locale

\* getTranslation(key) in the current locale; a key with no message in that
\* locale invokes the asynchronous missing handler, which loads the locale
\* unless it is marked loaded
GetTranslation(key) ==
  /\ LET l == sm.currentLocale
         handler == NewCall("missing", l, key)
     IN /\ shown' = [op |-> "getTranslation", key |-> key, ret |-> t(messages, l, key),
                     cold |-> (calls = <<>>),
                     initialized |-> Initialized(calls),
                     initial |-> IF Initialized(calls) THEN InitialLocale(calls) ELSE None]
        /\ IF Resolves(messages[l], key)
           THEN UNCHANGED calls
           ELSE /\ Len(calls) < MaxCalls
                /\ calls' = Append(calls, IF isLocaleLoaded(sm, l)
                                          THEN Returned(handler, "ok") ELSE handler)
  /\ UNCHANGED <<sm, storage, messages, loadLog>>
  /\ FacadeUnchanged

NextFacade ==
  \/ \E l \in AllLocales : SetLocale(l)
  \/ Initialize
  \/ \E i \in 1..Len(calls) : \E out \in StrategyOutcomes(Awaited(calls[i])) : LoadSettle(i, out)
  \/ \E key \in LoaderKeys : GetTranslation(key)

SpecFacade == InitFacade /\ [][NextFacade]_vars

\* every load the facade awaits settles
SpecFacadeFair ==
  SpecFacade /\ \A i \in 1..MaxCalls :
                  WF_vars(\E out \in StrategyOutcomes("en") \cup StrategyOutcomes("vi") :
                            i <= Len(calls) /\ LoadSettle(i, out))

\* hits per second of age of entry a is at most that of entry b, and a is
\* at least as old when the two are equal (ages are positive)
LessUsed(a, b) ==
  \/ a.hits * (now - b.timestamp) < b.hits * (now - a.timestamp)
  \/ /\ a.hits * (now - b.timestamp) = b.hits * (now - a.timestamp)
     /\ a.timestamp <= b.timestamp

\* C11: in the locale and key tiers a set of a new key at capacity evicts
\* exactly one entry, one with the lowest hits per second of age and the
\* oldest among ties; an entry that was read at least once is never evicted
\* while a never-read entry is resident
C11_FrequencyEviction ==
  [][( /\ CalledNow("set") /\ focus \in {"locale", "key"}
       /\ cacheRet'.full /\ ~MapHas(cache[focus], cacheRet'.k) )
     => \E v \in MapKeys(cache[focus]) :
          /\ MapKeys(cache'[focus]) = (MapKeys(cache[focus]) \ {v}) \cup {cacheRet'.k}
          /\ \A r \in MapKeys(cache[focus]) \ {v} :
               /\ (now > MapGet(cache[focus], v).timestamp /\ now > MapGet(cache[focus], r).timestamp)
                    => LessUsed(MapGet(cache[focus], v), MapGet(cache[focus], r))
               /\ MapGet(cache[focus], v).hits >= 1 => MapGet(cache[focus], r).hits >= 1
    ]_vars

\* the locale an entry key belongs to
KeyLocale(k) == k[2]

\* C12: clearLocale(L) removes every entry of L from the three tiers and
\* leaves the entries of every other locale unchanged
C12_ClearLocaleSelective ==
  [][CalledNow("clearLocale") =>
       \A tier \in TierNames :
         cache'[tier] = SelectSeq(cache[tier], LAMBDA e : KeyLocale(e.k) # cacheRet'.k[1])
    ]_vars

\* ---------------------------------------------------------------------------
\* Properties of the module loader
\* ---------------------------------------------------------------------------
\* how many times promise p has requested the resource of locale l
FetchesOf(p, l) == Cardinality({n \in 1..Len(p.reqs) : p.reqs[n].res = l})

\* the request promise p has outstanding: the resource and the section
Outstanding(p) == <<p.reqs[Len(p.reqs)].res, p.section>>

\* C1: when N >= 2 calls load(L) are issued before the first one settles,
\* exactly one fetch of L's resource is issued and all callers settle with the
\* same result
C1_OneFetchSameResult ==
  \A i, j \in 1..Len(tasks) :
    (i # j /\ tasks[i].kind = "mload" /\ tasks[j].kind = "mload" /\ tasks[j].src = i)
    => /\ tasks[j].h.t = "p" =>
            FetchesOf(promises[tasks[j].h.p], tasks[j].locale) = 1
       /\ (tasks[i].pc = "done" /\ tasks[j].pc = "done") =>
            tasks[i].out = tasks[j].out

\* C2: under every interleaving of load, unload, recovery and fetch
\* completions, at most one request per (locale, section) target is outstanding
C2_OneRequestPerTarget ==
  \A i, j \in DOMAIN promises :
    (i # j /\ Pending(promises[i]) /\ Pending(promises[j]))
    => Outstanding(promises[i]) # Outstanding(promises[j])

\* C30: the in-flight entry of a target is removed only by the settling of
\* the load that registered it or by unload of its locale; a settling load
\* never removes the entry a different load of the same target registered
C30_EntryRemovedByOwner ==
  [][\A k \in LoadKeys :
       (loadingPromises[k] # 0 /\ loadingPromises'[k] # loadingPromises[k]) =>
          \/ /\ ~promises[loadingPromises[k]].cleaned
             /\ promises'[loadingPromises[k]].cleaned
          \/ /\ promises' = promises
             /\ \A k2 \in LoadKeys : StartsWith(k2, k[1]) => loadingPromises'[k2] = 0
    ]_vars

\* C3: for a locale X other than the configured fallback locale F, when the
\* fetch of X fails and no fetch of F fails, load(X) resolves with F's payload
C3_FallbackPayload ==
  \A i \in DOMAIN promises :
    LET p == promises[i]
    IN ( /\ Settled(p)
         /\ p.locale # FallbackLocale
         /\ p.reqs[1].res_ok = "fail"
         /\ \A n \in 1..Len(p.reqs) :
              p.reqs[n].res = FallbackLocale => p.reqs[n].res_ok = "ok" )
       => (p.st = "ok" /\ p.val = FallbackLocale)

\* C4: a load rejects only when the recovery for its error returned false;
\* whenever the recovery reports success the load resolves
C4_ErrorOnlyAfterFailedRecovery ==
  /\ \A i \in DOMAIN promises :
       promises[i].st = "err" => promises[i].recovery = "false"
  /\ \A i \in 1..Len(tasks) :
       (tasks[i].kind = "sload" /\ tasks[i].pc = "done" /\ tasks[i].out.t = "err")
       => tasks[i].rec = "false"

\* ---------------------------------------------------------------------------
\* Properties of the key-level loader
\* ---------------------------------------------------------------------------
Missing == [t |-> "missing"]

\* the value reached in data after the first n segments of parts
RECURSIVE Descend(_, _, _)
Descend(data, parts, n) ==
  IF n = 0 THEN data
  ELSE LET v == Descend(data, parts, n - 1)
       IN IF v.t = "obj" /\ parts[n] \in DOMAIN v.o THEN v.o[parts[n]] ELSE Missing

\* the segments of a dotted key: the dot-free pieces that joined by dots give it
SegmentChars == {"a", "b", "c"}
Pieces == {<<>>} \cup {<<c>> : c \in SegmentChars}
RECURSIVE Join(_)
Join(parts) ==
  IF Len(parts) = 1 THEN parts[1]
  ELSE parts[1] \o <<".">> \o Join(Tail(parts))
Segments(key) ==
  CHOOSE parts \in UNION {[1..n -> Pieces] : n \in 1..2} : Join(parts) = key

Translation(l, key) ==
  LET v == Descend(Payload(l), Segments(key), Len(Segments(key)))
  IN IF v.t = "str" THEN v.s ELSE key

\* C5: loadKey(L, K) on a loaded payload returns the string reached by
\* descending K's dot-separated segments, and K itself when a segment is
\* absent or the value reached is not a string
C5_KeyExtraction ==
  \A i \in 1..Len(tasks) :
    (tasks[i].kind = "key" /\ tasks[i].pc = "done" /\ tasks[i].got # None)
    => tasks[i].out = [t |-> "ok", v |-> Translation(tasks[i].got, tasks[i].key)]

\* loadKey calls have returned a translation, a key with an absent segment
\* and a key that ends on an object
C5_Witness ==
  /\ \E i \in 1..Len(tasks) :
       /\ tasks[i].kind = "key" /\ tasks[i].pc = "done" /\ tasks[i].got = "en"
       /\ tasks[i].key = <<"a", ".", "b">> /\ tasks[i].out.v = <<"H", "i">>
  /\ \E i \in 1..Len(tasks) :
       /\ tasks[i].kind = "key" /\ tasks[i].pc = "done" /\ tasks[i].got = "en"
       /\ tasks[i].key \in {<<"a", ".", "c">>, <<"a">>} /\ tasks[i].out.v = tasks[i].key

\* C6: after loadKey(L, K) degrades to the raw key because K is missing from
\* L's payload, the key tier holds no entry for (L, K)
C6_NoPoisonedKeyEntry ==
  [][\A i \in 1..Len(tasks) :
        ( /\ ResumeKey(i)
          /\ tasks[i].pc = "wait" /\ tasks'[i].pc = "done"
          /\ tasks'[i].got = tasks[i].locale
          /\ Translation(tasks[i].locale, tasks[i].key) = tasks[i].key )
        => ~MapHas(cache'["key"], KeyKey(tasks[i].locale, tasks[i].key))
    ]_vars

KeyChars == SegmentChars \cup {".", "H", "i", "X", "n", "V"}

C40_UnloadedStaysOut ==
  \A l \in tracked.unloaded : \A tier \in TierNames : \A n \in 1..Len(cache[tier]) :
    KeyLocale(cache[tier][n].k) # l

\* what an entry under key k holds when it was made from its own locale's
\* payload: the payload itself in the locale and section tiers, the value
\* extracted from it in the key tier
OwnData(tier, k) ==
  IF tier = "key" THEN Translation(KeyLocale(k), k[3]) ELSE KeyLocale(k)

\* C34: every cache entry stored under locale L, in the locale, section or key
\* tier, holds data derived from L's own payload, never data obtained from
\* the fallback locale during recovery
C34_NoFallbackDataUnderLocale ==
  \A tier \in TierNames : \A i \in 1..Len(cache[tier]) :
    cache[tier][i].data = OwnData(tier, cache[tier][i].k)

\* ---------------------------------------------------------------------------
\* Properties of the facade
\* ---------------------------------------------------------------------------
\* the positions before j at which the log holds the entry e
Before(j, e) == {k \in 1..(j - 1) : loadLog[k] = e}

\* C15: within each setLocale call startLoading and completeLoading are
\* paired: a completeLoading for a locale is preceded by exactly one
\* startLoading of the same call for that locale and by no other
\* completeLoading of it, and a call that has returned has completed every
\* startLoading it made
C15_StartCompletePaired ==
  /\ \A j \in 1..Len(loadLog) :
       loadLog[j][1] = "complete" =>
         /\ Cardinality(Before(j, <<"start", loadLog[j][2], loadLog[j][3]>>)) = 1
         /\ Before(j, loadLog[j]) = {}
  /\ \A j \in 1..Len(loadLog) :
       (loadLog[j][1] = "start" /\ calls[loadLog[j][3]].pc = "done") =>
         \E k \in (j + 1)..Len(loadLog) :
           loadLog[k] = <<"complete", loadLog[j][2], loadLog[j][3]>>

\* every facade call made so far has returned
Quiescent == \A i \in 1..Len(calls) : calls[i].pc = "done"

NothingLoading ==
  /\ ~sm.isLoading
  /\ sm.loadingLocales = <<>>
  /\ sm.loadingSections = <<>>
  /\ sm.loadingModules = <<>>

\* C16: when every load settles, isLoading does not stay true, and once the
\* setLocale calls made so far have all returned, with success or failure,
\* isLoading is false and the three loading sets are empty
C16_LoadingClears ==
  /\ [](Quiescent => NothingLoading)
  /\ (sm.isLoading ~> ~sm.isLoading)

\* two setLocale calls that both started loading have returned, one with
\* success and one with failure
C16_Witness ==
  /\ Quiescent
  /\ \E i, j \in 1..Len(calls) :
       /\ calls[i].kind = "setLocale" /\ calls[i].ret = "true"
       /\ calls[j].kind = "setLocale" /\ calls[j].ret = "false"
       /\ \E k, m \in 1..Len(loadLog) :
            loadLog[k] = <<"start", calls[i].locale, i>> /\ loadLog[m] = <<"start", calls[j].locale, j>>

\* C29: at every suspension point of the facade's operations no locale is
\* both in loadedLocales and in loadingLocales
C29_LoadedNotLoading ==
  \A l \in SeqRange(sm.loadedLocales) : l \notin SeqRange(sm.loadingLocales)

\* C20: before any load getTranslation(k) returns k; once initialize() has
\* completed successfully, getTranslation(k) returns the initial locale's
\* string for every k that has one in that locale's payload
C20_ColdStart ==
  shown.op = "getTranslation" =>
    /\ shown.cold => shown.ret = shown.key
    /\ (shown.initialized /\ Translation(shown.initial, shown.key) # shown.key)
         => shown.ret = Translation(shown.initial, shown.key)

\* the position of entry e in the log, 0 when absent
LogPos(log, e) ==
  IF \E k \in 1..Len(log) : log[k] = e
  THEN CHOOSE k \in 1..Len(log) : log[k] = e ELSE 0

\* the calls whose startLoading has not been matched by their completeLoading
Unmatched ==
  {i \in 1..Len(calls) :
     /\ LogPos(loadLog, <<"start", calls[i].locale, i>>) > 0
     /\ LogPos(loadLog, <<"complete", calls[i].locale, i>>) = 0}

\* C36: isLoading is true as long as at least one startLoading has not been
\* matched by its completeLoading, also when two setLocale calls for the
\* same locale overlap
C36_LoadingWhileUnmatched ==
  Unmatched # {} => sm.isLoading

\* setLocale call j was issued after call i and before call i returned: call
\* i is still awaiting its load, or it completed its loading after call j
\* started its own
Overlap(log, i, j) ==
  /\ i < j
  /\ \/ calls[i].pc # "done"
     \/ /\ LogPos(log, <<"start", calls[j].locale, j>>) > 0
        /\ LogPos(log, <<"complete", calls[i].locale, i>>)
             > LogPos(log, <<"start", calls[j].locale, j>>)

\* C37: when two overlapping setLocale calls have both returned true, then at
\* the return of the second of them to settle currentLocale and the persisted
\* preference are the locale of the call issued later, in whichever order
\* the two calls complete
C37_LaterCallWins ==
  [][\A i, j \in 1..Len(calls) :
        ( /\ calls[i].kind = "setLocale" /\ calls[j].kind = "setLocale"
          /\ calls'[i].ret = "true" /\ calls'[j].ret = "true"
          /\ calls[i].pc # "done" \/ calls[j].pc # "done"
          /\ Overlap(loadLog', i, j) )
        => /\ sm'.currentLocale = calls[j].locale
           /\ storage' = calls[j].locale
    ]_vars

\* the step leaves the current locale, the loaded locales and the persisted
\* preference as they were
LocaleStateKept ==
  /\ sm'.currentLocale = sm.currentLocale
  /\ sm'.loadedLocales = sm.loadedLocales
  /\ storage' = storage

\* C38: a setLocale call that returns false, for an unsupported locale or
\* after a failed load, leaves currentLocale, loadedLocales and the persisted
\* preference unchanged in each of its steps (the one that starts loading and
\* the one that returns) and notifies no onLocaleChange
C38_FailedSetLocaleFrame ==
  [][\A i \in 1..Len(calls') :
        /\ ( /\ calls'[i].kind = "setLocale" /\ calls'[i].ret = "false"
             /\ i > Len(calls) \/ calls[i].pc # "done" )
           => LocaleStateKept /\ "onLocaleChange" \notin calls'[i].events
        /\ (calls'[i].kind = "setLocale" /\ i > Len(calls)) => LocaleStateKept
    ]_vars

\* a setLocale call whose load failed has returned false while the current
\* locale is not the default one
C38_Witness ==
  /\ sm.currentLocale # DefaultLocale
  /\ \E i \in 1..Len(calls) :
       /\ calls[i].kind = "setLocale" /\ calls[i].ret = "false"
       /\ calls[i].events = {"onLoadingStart", "onLoadingComplete"}
  /\ \E i \in 1..Len(calls) :
       /\ calls[i].kind = "setLocale" /\ calls[i].ret = "false"
       /\ ~isLocaleSupported(calls[i].locale)

====
